---- MODULE Spec2Model ----
(***************************************************************************)
(* Authentication, permission and department-hierarchy core of the admin   *)
(* backend: utils/jwt.py, core/dependency.py, api/v1/base/base.py and      *)
(* repositories/dept.py.                                                   *)
(***************************************************************************)
EXTENDS Integers, Naturals, Sequences, FiniteSets, Bags, TLC

VARIABLES
    now,          \* wall clock, whole seconds (datetime.now(UTC))
    ticks,        \* number of clock advances taken so far
    users,        \* User table: id -> [exists, is_active, last_login]
    issued,       \* every token the server has handed out
    used,         \* refresh tokens that were presented and accepted
    reused,       \* refresh tokens accepted more than once
    resp,         \* response of the last auth request
    ctx_user_id,  \* CTX_USER_ID of the last request (0 = unset)
    dept,         \* Dept table: id -> [exists, parent_id, is_deleted]
    closure,      \* DeptClosure table: bag of <<ancestor, descendant, level>>
    dept_res,     \* outcome of the last department call
    moves,        \* number of completed parent changes so far
    perm_in,      \* the permission check under way: user, grants, request
    perm_res,     \* outcome of has_permission for perm_in
    tree_depts,   \* Dept table read by get_dept_tree: id -> [name, order, parent_id, is_deleted]
    tree_res,     \* result of the last get_dept_tree call
    settings,     \* settings read by the word filter: ENABLE_SENSITIVE_WORD_FILTER, SENSITIVE_WORDS
    sensitive_word_filter,  \* the global SensitiveWordFilter: [enabled, automaton]
    filter_res,   \* result of the last call on the word filter
    flushed,      \* the last chunk filter_streaming_chunk let through
    cache_redis,  \* cache_manager.redis: "None" or "connected"
    redis_db,     \* the keys held by Redis: set of [key, data, exp]
    call_count,   \* number of times a function wrapped by @cached was invoked
    cache_res,    \* outcome of the last cache call
    audit_log,    \* AuditLog table: sequence of rows in insertion order
    audit_res,    \* outcome of the last request that went through the audit middleware
    calls,        \* the concurrent update_dept calls: position and locals of each
    overlapped    \* whether a statement of one call ran while the other call was under way

authVars == <<now, ticks, users, issued, used, reused, resp, ctx_user_id>>
deptVars == <<dept, closure, dept_res, moves>>
permVars == <<perm_in, perm_res>>
treeVars == <<tree_depts, tree_res>>
filterVars == <<settings, sensitive_word_filter, filter_res, flushed>>
cacheVars == <<cache_redis, redis_db, call_count, cache_res>>
auditVars == <<audit_log, audit_res>>
raceVars == <<calls, overlapped>>
vars == <<now, ticks, users, issued, used, reused, resp, ctx_user_id,
          dept, closure, dept_res, moves, perm_in, perm_res,
          tree_depts, tree_res, settings, sensitive_word_filter, filter_res, flushed,
          cache_redis, redis_db, call_count, cache_res, audit_log, audit_res,
          calls, overlapped>>

(***************************************************************************)
(* Bounds                                                                  *)
(***************************************************************************)
MaxUser == 1
MaxTicks == 2
MaxPairs == 2
MaxDept == 3
MaxMoves == 1
MaxFailDept == 2
MaxRoles == 2
MaxPatSegs == 2
MaxReqSegs == 2
MaxTreeDept == 3
MaxWords == 2

UserIds == 1..MaxUser

(***************************************************************************)
(* settings/config.py                                                      *)
(***************************************************************************)
JWT_ACCESS_TOKEN_EXPIRE_MINUTES == 240
JWT_REFRESH_TOKEN_EXPIRE_DAYS == 7
SECRET_KEY == "secret"

AccessTTL == JWT_ACCESS_TOKEN_EXPIRE_MINUTES * 60
RefreshTTL == JWT_REFRESH_TOKEN_EXPIRE_DAYS * 86400

(***************************************************************************)
(* utils/jwt.py                                                            *)
(***************************************************************************)
\* A token is its signed payload; sig is the key it was signed with, or
\* "malformed" for a string that is no JWT at all.
NoToken == [user_id |-> 0, exp |-> 0, token_type |-> "none", sig |-> "none"]
MalformedToken == [user_id |-> 0, exp |-> 0, token_type |-> "none", sig |-> "malformed"]

JWTPayload(uid, e, tt) == [user_id |-> uid, exp |-> e, token_type |-> tt]

jwt_encode(payload, key) ==
    [user_id |-> payload.user_id, exp |-> payload.exp,
     token_type |-> payload.token_type, sig |-> key]

jwt_decode_late(token, key, t) ==
    IF token.sig # key THEN [ok |-> FALSE, err |-> "DecodeError", payload |-> NoToken]
    ELSE IF token.exp < t THEN [ok |-> FALSE, err |-> "ExpiredSignatureError", payload |-> NoToken]
    ELSE [ok |-> TRUE, err |-> "none", payload |-> token]

\* jwt.decode: the signature is checked first, then the exp claim.
jwt_decode(token, key, t) ==
    IF token.sig # key THEN [ok |-> FALSE, err |-> "DecodeError", payload |-> NoToken]
    ELSE IF token.exp <= t THEN [ok |-> FALSE, err |-> "ExpiredSignatureError", payload |-> NoToken]
    ELSE [ok |-> TRUE, err |-> "none", payload |-> token]

create_access_token(data) ==
    jwt_encode([data EXCEPT !.token_type = "access"], SECRET_KEY)

create_refresh_token(uid, t) ==
    jwt_encode([JWTPayload(uid, t + RefreshTTL, "refresh") EXCEPT !.token_type = "refresh"],
               SECRET_KEY)

verify_token_anykind(token, token_type, t) ==
    LET d == jwt_decode(token, SECRET_KEY, t) IN
    IF ~d.ok
    THEN [ok |-> FALSE,
          err |-> IF d.err = "ExpiredSignatureError" THEN "ExpiredSignatureError"
                  ELSE "InvalidTokenError",
          payload |-> NoToken]
    ELSE d

verify_token(token, token_type, t) ==
    LET d == jwt_decode(token, SECRET_KEY, t) IN
    IF ~d.ok
    THEN [ok |-> FALSE,
          err |-> IF d.err = "ExpiredSignatureError" THEN "ExpiredSignatureError"
                  ELSE "InvalidTokenError",
          payload |-> NoToken]
    ELSE IF d.payload.token_type # token_type
    THEN [ok |-> FALSE, err |-> "InvalidTokenError", payload |-> NoToken]
    ELSE d

create_token_pair(uid, t) ==
    [access |-> create_access_token(JWTPayload(uid, t + AccessTTL, "access")),
     refresh |-> create_refresh_token(uid, t)]

(***************************************************************************)
(* User table and the auth endpoints                                       *)
(***************************************************************************)
NoLogin == 0 - 1

UserRow(e, a, l) == [exists |-> e, is_active |-> a, last_login |-> l]

UserFound(us, uid) == uid \in DOMAIN us /\ us[uid].exists

Response(op, status, detail, access, refresh, uid, t) ==
    [op |-> op, status |-> status, detail |-> detail, access |-> access,
     refresh |-> refresh, user_id |-> uid, at |-> t]

\* user_repository.authenticate: absent, inactive or wrong password fail.
authenticate(us, uid, pw_ok) == UserFound(us, uid) /\ pw_ok /\ us[uid].is_active

login_access_token_inactive_ok(us, uid, pw_ok, t) ==
    IF ~(UserFound(us, uid) /\ pw_ok)
    THEN Response("login", 401, "auth failed", NoToken, NoToken, 0, t)
    ELSE LET pair == create_token_pair(uid, t) IN
         Response("login", 200, "OK", pair.access, pair.refresh, uid, t)

login_access_token(us, uid, pw_ok, t) ==
    IF ~authenticate(us, uid, pw_ok)
    THEN Response("login", 401, "auth failed", NoToken, NoToken, 0, t)
    ELSE LET pair == create_token_pair(uid, t) IN
         Response("login", 200, "OK", pair.access, pair.refresh, uid, t)

refresh_access_token_noactive(us, token, t) ==
    LET v == verify_token(token, "refresh", t) IN
    IF ~v.ok
    THEN Response("refresh", 401, "Token is invalid or expired", NoToken, NoToken, 0, t)
    ELSE IF ~UserFound(us, v.payload.user_id)
    THEN Response("refresh", 401, "User does not exist or has been disabled",
                  NoToken, NoToken, 0, t)
    ELSE LET pair == create_token_pair(v.payload.user_id, t) IN
         Response("refresh", 200, "OK", pair.access, pair.refresh, v.payload.user_id, t)

refresh_access_token(us, token, t) ==
    LET v == verify_token(token, "refresh", t) IN
    IF ~v.ok
    THEN Response("refresh", 401, "Token is invalid or expired", NoToken, NoToken, 0, t)
    ELSE IF ~UserFound(us, v.payload.user_id) \/ ~us[v.payload.user_id].is_active
    THEN Response("refresh", 401, "User does not exist or has been disabled",
                  NoToken, NoToken, 0, t)
    ELSE LET pair == create_token_pair(v.payload.user_id, t) IN
         Response("refresh", 200, "OK", pair.access, pair.refresh, v.payload.user_id, t)

\* AuthControl.is_authed: the HTTPException raised for a missing token is
\* caught by the trailing "except Exception" and re-raised as 401.
is_authed_active_only(us, token, t) ==
    IF token = NoToken
    THEN Response("authed", 401, "Authentication failed", NoToken, NoToken, 0, t)
    ELSE LET d == jwt_decode(token, SECRET_KEY, t) IN
         IF ~d.ok
         THEN Response("authed", 401,
                       IF d.err = "DecodeError" THEN "Invalid token" ELSE "Login has expired",
                       NoToken, NoToken, 0, t)
         ELSE IF ~UserFound(us, d.payload.user_id) \/ ~us[d.payload.user_id].is_active
         THEN Response("authed", 401, "Authentication failed", NoToken, NoToken, 0, t)
         ELSE Response("authed", 200, "OK", token, NoToken, d.payload.user_id, t)

is_authed_auto_error(us, token, t) ==
    IF token = NoToken
    THEN Response("authed", 403, "Not authenticated", NoToken, NoToken, 0, t)
    ELSE LET d == jwt_decode(token, SECRET_KEY, t) IN
         IF ~d.ok
         THEN Response("authed", 401,
                       IF d.err = "DecodeError" THEN "Invalid token" ELSE "Login has expired",
                       NoToken, NoToken, 0, t)
         ELSE IF ~UserFound(us, d.payload.user_id)
         THEN Response("authed", 401, "Authentication failed", NoToken, NoToken, 0, t)
         ELSE Response("authed", 200, "OK", token, NoToken, d.payload.user_id, t)

is_authed(us, token, t) ==
    IF token = NoToken
    THEN Response("authed", 401, "Authentication failed", NoToken, NoToken, 0, t)
    ELSE LET d == jwt_decode(token, SECRET_KEY, t) IN
         IF ~d.ok
         THEN Response("authed", 401,
                       IF d.err = "DecodeError" THEN "Invalid token" ELSE "Login has expired",
                       NoToken, NoToken, 0, t)
         ELSE IF ~UserFound(us, d.payload.user_id)
         THEN Response("authed", 401, "Authentication failed", NoToken, NoToken, 0, t)
         ELSE Response("authed", 200, "OK", token, NoToken, d.payload.user_id, t)

\* What a client can present: tokens it was given, the same payloads signed
\* with another key, a string that is no JWT, or nothing at all.
Forged(tok) == [tok EXCEPT !.sig = "other"]
Presentable == issued \cup {Forged(tok) : tok \in issued} \cup {MalformedToken, NoToken}

NoResponse == Response("none", 0, "none", NoToken, NoToken, 0, 0)

\* Every user exists, is active and has never logged in.
InitUsers == [u \in UserIds |-> UserRow(TRUE, TRUE, NoLogin)]

Tick(d) ==
    /\ ticks < MaxTicks
    /\ now' = now + d
    /\ ticks' = ticks + 1
    /\ UNCHANGED <<users, issued, used, reused, resp, ctx_user_id>>

Login(uid, pw_ok) ==
    LET r == login_access_token(users, uid, pw_ok, now) IN
    /\ Cardinality((issued \cup {r.access, r.refresh}) \ {NoToken}) <= 2 * MaxPairs
    /\ resp' = r
    /\ users' = IF r.status = 200
                THEN [users EXCEPT ![uid].last_login = now]
                ELSE users
    /\ issued' = IF r.status = 200 THEN issued \cup {r.access, r.refresh} ELSE issued
    /\ ctx_user_id' = 0
    /\ UNCHANGED <<now, ticks, used, reused>>

Refresh_rotating(token) ==
    LET r == IF token \in used
             THEN Response("refresh", 401, "Token is invalid or expired",
                           NoToken, NoToken, 0, now)
             ELSE refresh_access_token(users, token, now) IN
    /\ Cardinality((issued \cup {r.access, r.refresh}) \ {NoToken}) <= 2 * MaxPairs
    /\ resp' = r
    /\ issued' = IF r.status = 200 THEN issued \cup {r.access, r.refresh} ELSE issued
    /\ used' = IF r.status = 200 THEN used \cup {token} ELSE used
    /\ reused' = IF r.status = 200 /\ token \in used THEN reused \cup {token} ELSE reused
    /\ ctx_user_id' = 0
    /\ UNCHANGED <<now, ticks, users>>

Refresh(token) ==
    LET r == refresh_access_token(users, token, now) IN
    /\ Cardinality((issued \cup {r.access, r.refresh}) \ {NoToken}) <= 2 * MaxPairs
    /\ resp' = r
    /\ issued' = IF r.status = 200 THEN issued \cup {r.access, r.refresh} ELSE issued
    /\ used' = IF r.status = 200 THEN used \cup {token} ELSE used
    /\ reused' = IF r.status = 200 /\ token \in used THEN reused \cup {token} ELSE reused
    /\ ctx_user_id' = 0
    /\ UNCHANGED <<now, ticks, users>>

IsAuthed(token) ==
    LET r == is_authed(users, token, now) IN
    /\ resp' = r
    /\ ctx_user_id' = r.user_id
    /\ UNCHANGED <<now, ticks, users, issued, used, reused>>

SetActive(uid, b) ==
    /\ users[uid].exists
    /\ users[uid].is_active # b
    /\ users' = [users EXCEPT ![uid].is_active = b]
    /\ UNCHANGED <<now, ticks, issued, used, reused, resp, ctx_user_id>>

DeleteUser(uid) ==
    /\ users[uid].exists
    /\ users' = [users EXCEPT ![uid].exists = FALSE]
    /\ UNCHANGED <<now, ticks, issued, used, reused, resp, ctx_user_id>>

TickSteps == {1, AccessTTL - 1, RefreshTTL - 1}

AuthNext ==
    \/ \E d \in TickSteps : Tick(d)
    \/ \E u \in UserIds, ok \in BOOLEAN : Login(u, ok)
    \/ \E tok \in Presentable : Refresh(tok)
    \/ \E tok \in Presentable : IsAuthed(tok)
    \/ \E u \in UserIds, b \in BOOLEAN : SetActive(u, b)
    \/ \E u \in UserIds : DeleteUser(u)

(***************************************************************************)
(* repositories/dept.py: Dept rows and the DeptClosure table               *)
(***************************************************************************)
\* Dept ids are handed out in insertion order: the row of id i is dept[i].
DeptRow(p, del) == [parent_id |-> p, is_deleted |-> del]

DeptIds(d) == 1..Len(d)

\* CRUDBase.get: the row with this id, or DoesNotExist (answered as 404).
HasDept(d, id) == id \in DeptIds(d)

ClosureRow(a, d, l) == <<a, d, l>>

\* DeptClosure.filter(...).delete()
DeleteWhereAncestor(c, id) ==
    [r \in {x \in DOMAIN c : x[1] # id} |-> c[r]]

DeleteWhereDescendant(c, id) ==
    [r \in {x \in DOMAIN c : x[2] # id} |-> c[r]]

update_dept_closure_samelevel(c, id, parent_id) ==
    LET parent_depts == {r \in DOMAIN c : r[2] = parent_id}
        copied == [n \in {ClosureRow(r[1], id, r[3]) : r \in parent_depts} |->
                     c[ClosureRow(n[1], parent_id, n[3])]]
    IN  c (+) copied (+) SetToBag({ClosureRow(id, id, 0)})

\* The rows of the parent are copied one level up, then the self row is added.
update_dept_closure(c, id, parent_id) ==
    LET parent_depts == {r \in DOMAIN c : r[2] = parent_id}
        copied == [n \in {ClosureRow(r[1], id, r[3] + 1) : r \in parent_depts} |->
                     c[ClosureRow(n[1], parent_id, n[3] - 1)]]
    IN  c (+) copied (+) SetToBag({ClosureRow(id, id, 0)})

Tables(d, c, outcome) == [dept |-> d, closure |-> c, outcome |-> outcome]

\* The body of each call, up to the statement `fail` at which the database
\* raises ("none": every statement succeeds).
create_dept_body(d, c, parent_id, fail) ==
    IF parent_id # 0 /\ ~HasDept(d, parent_id) THEN Tables(d, c, "NotFound")
    ELSE IF fail = "create" THEN Tables(d, c, "failed")
    ELSE LET d1 == Append(d, DeptRow(parent_id, FALSE)) IN
         IF fail = "bulk_create" THEN Tables(d1, c, "failed")
         ELSE Tables(d1, update_dept_closure(c, Len(d1), parent_id), "ok")

update_dept_body(d, c, id, parent_id, fail) ==
    IF ~HasDept(d, id) THEN Tables(d, c, "NotFound")
    ELSE LET changed == d[id].parent_id # parent_id
             c1 == DeleteWhereAncestor(c, id)
             c2 == DeleteWhereDescendant(c1, id)
             c3 == update_dept_closure(c2, id, d[id].parent_id)
             cc == IF changed THEN c3 ELSE c
         IN  IF changed /\ fail = "delete_ancestor" THEN Tables(d, c, "failed")
             ELSE IF changed /\ fail = "delete_descendant" THEN Tables(d, c1, "failed")
             ELSE IF changed /\ fail = "bulk_create" THEN Tables(d, c2, "failed")
             ELSE IF fail = "save" THEN Tables(d, cc, "failed")
             ELSE Tables([d EXCEPT ![id].parent_id = parent_id], cc, "ok")

delete_dept_body_both_sides(d, c, id, fail) ==
    IF ~HasDept(d, id) THEN Tables(d, c, "NotFound")
    ELSE IF fail = "save" THEN Tables(d, c, "failed")
    ELSE LET d1 == [d EXCEPT ![id].is_deleted = TRUE] IN
         IF fail = "delete_descendant" THEN Tables(d1, c, "failed")
         ELSE Tables(d1, DeleteWhereDescendant(DeleteWhereAncestor(c, id), id), "ok")

delete_dept_body(d, c, id, fail) ==
    IF ~HasDept(d, id) THEN Tables(d, c, "NotFound")
    ELSE IF fail = "save" THEN Tables(d, c, "failed")
    ELSE LET d1 == [d EXCEPT ![id].is_deleted = TRUE] IN
         IF fail = "delete_descendant" THEN Tables(d1, c, "failed")
         ELSE Tables(d1, DeleteWhereDescendant(c, id), "ok")

atomic_partial(d, c, body) == body

\* @atomic(): the writes of a body that raised are rolled back.
atomic(d, c, body) ==
    IF body.outcome = "ok" THEN body ELSE Tables(d, c, body.outcome)

\* What the caller learns: the outcome, for a completed call the row it
\* acted on (and for update the parent the row had before), for a failed
\* call the statement that raised.
DeptResult(op, id, old_parent, outcome, fail) ==
    [op |-> op,
     id |-> IF outcome = "ok" THEN id ELSE 0,
     old_parent |-> IF outcome = "ok" THEN old_parent ELSE 0,
     outcome |-> outcome,
     fail |-> IF outcome = "failed" THEN fail ELSE "none"]

create_dept(parent_id, fail) ==
    LET r == atomic(dept, closure, create_dept_body(dept, closure, parent_id, fail)) IN
    /\ Len(dept) < MaxDept
    /\ dept' = r.dept
    /\ closure' = r.closure
    /\ dept_res' = DeptResult("create", Len(r.dept), 0, r.outcome, fail)
    /\ moves' = moves

update_dept(id, parent_id, fail) ==
    LET r == atomic(dept, closure, update_dept_body(dept, closure, id, parent_id, fail))
        moved == r.outcome = "ok" /\ dept[id].parent_id # parent_id IN
    /\ moved => moves < MaxMoves
    /\ moves' = IF moved THEN moves + 1 ELSE moves
    /\ dept' = r.dept
    /\ closure' = r.closure
    /\ dept_res' = DeptResult("update", id,
                              IF HasDept(dept, id) THEN dept[id].parent_id ELSE 0,
                              r.outcome, fail)

delete_dept(id, fail) ==
    LET r == atomic(dept, closure, delete_dept_body(dept, closure, id, fail)) IN
    /\ dept' = r.dept
    /\ closure' = r.closure
    /\ dept_res' = DeptResult("delete", id, 0, r.outcome, fail)
    /\ moves' = moves

\* Ids a caller may name: every id that can be in use and one that never is.
DeptArgs == 1..(MaxDept + 1)
ParentArgs == 0..(MaxDept + 1)
CreateFails == {"create", "bulk_create"}
UpdateFails == {"delete_ancestor", "delete_descendant", "bulk_create", "save"}
DeleteFails == {"save", "delete_descendant"}

NoDeptResult == DeptResult("none", 0, 0, "none", "none")

\* Every statement succeeds.
DeptNext ==
    \/ \E p \in ParentArgs : create_dept(p, "none")
    \/ \E id \in DeptArgs, p \in ParentArgs : update_dept(id, p, "none")
    \/ \E id \in DeptArgs : delete_dept(id, "none")

\* The database may raise at any statement of a call.
FailDeptArgs == 1..(MaxFailDept + 1)
FailParentArgs == 0..(MaxFailDept + 1)

DeptFailNext ==
    \/ \E p \in FailParentArgs, f \in CreateFails \cup {"none"} :
         Len(dept) < MaxFailDept /\ create_dept(p, f)
    \/ \E id \in FailDeptArgs, p \in FailParentArgs, f \in UpdateFails \cup {"none"} :
         update_dept(id, p, f)
    \/ \E id \in FailDeptArgs, f \in DeleteFails \cup {"none"} : delete_dept(id, f)

(***************************************************************************)
(* core/dependency.py: PermissionControl.has_permission                    *)
(***************************************************************************)
\* Paths are sequences of one-character strings.
RECURSIVE JoinSegs(_)
JoinSegs(segs) ==
    IF segs = <<>> THEN <<>> ELSE <<"/">> \o Head(segs) \o JoinSegs(Tail(segs))

PathsOver(segSet, maxSegs) ==
    UNION {{JoinSegs(f) : f \in [1..n -> segSet]} : n \in 1..maxSegs}

\* Segments Api.path values are built from, and segments of request paths.
PatSegs == {<<"a">>, <<"{", "i", "}">>, <<"a", ".", "b">>}
ReqSegs == {<<"a">>, <<"A">>, <<"a", "x", "b">>}
Methods == {"GET", "POST"}

ApiPaths == PathsOver(PatSegs, MaxPatSegs)
RequestPaths == PathsOver(ReqSegs, MaxReqSegs)
ApiRows == [method : Methods, path : ApiPaths]

\* re.sub(r"\{[^}]+\}", r"[^/]+", perm_path): the result is a sequence of
\* regex items, each one character of perm_path or the class "[^/]+".
FirstClose(p) ==
    IF \E j \in 2..Len(p) : p[j] = "}"
    THEN CHOOSE j \in 2..Len(p) : p[j] = "}" /\ \A i \in 2..(j - 1) : p[i] # "}"
    ELSE 0

RECURSIVE re_sub_placeholders(_)
re_sub_placeholders(p) ==
    IF p = <<>> THEN <<>>
    ELSE IF Head(p) = "{" /\ FirstClose(p) >= 3
    THEN <<"[^/]+">> \o re_sub_placeholders(SubSeq(p, FirstClose(p) + 1, Len(p)))
    ELSE <<Head(p)>> \o re_sub_placeholders(Tail(p))

\* re.match("^" + pattern + "$", path): "." stands for any character, every
\* other character for itself.
RECURSIVE re_match(_, _)
re_match(pat, str) ==
    IF pat = <<>> THEN str = <<>>
    ELSE IF Head(pat) = "[^/]+"
    THEN \E k \in 1..Len(str) :
           /\ \A i \in 1..k : str[i] # "/"
           /\ re_match(Tail(pat), SubSeq(str, k + 1, Len(str)))
    ELSE /\ str # <<>>
         /\ (Head(pat) = "." \/ Head(str) = Head(pat))
         /\ re_match(Tail(pat), Tail(str))

PermResult(status, detail, method, path) ==
    [status |-> status, detail |-> detail, method |-> method, path |-> path]

has_permission_roles_first(user, method, path) ==
    IF user.roles = <<>>
    THEN PermResult(403, "The user is not bound to a role", method, path)
    ELSE LET permission_apis == UNION {user.roles[i] : i \in DOMAIN user.roles} IN
         IF \E api \in permission_apis :
               /\ method = api.method
               /\ re_match(re_sub_placeholders(api.path), path)
         THEN PermResult(200, "granted", method, path)
         ELSE PermResult(403, "Permission denied", method, path)

has_permission_no_role_check(user, method, path) ==
    IF user.is_superuser THEN PermResult(200, "granted", method, path)
    ELSE LET permission_apis == UNION {user.roles[i] : i \in DOMAIN user.roles} IN
         IF \E api \in permission_apis :
               /\ method = api.method
               /\ re_match(re_sub_placeholders(api.path), path)
         THEN PermResult(200, "granted", method, path)
         ELSE PermResult(403, "Permission denied", method, path)

\* user: [is_superuser, roles]; roles is the list current_user.roles.all(),
\* each role the set of its Api rows.
has_permission(user, method, path) ==
    IF user.is_superuser THEN PermResult(200, "granted", method, path)
    ELSE IF user.roles = <<>>
    THEN PermResult(403, "The user is not bound to a role", method, path)
    ELSE LET permission_apis == UNION {user.roles[i] : i \in DOMAIN user.roles} IN
         IF \E api \in permission_apis :
               /\ method = api.method
               /\ re_match(re_sub_placeholders(api.path), path)
         THEN PermResult(200, "granted", method, path)
         ELSE PermResult(403, "Permission denied", method, path)

\* A role grants no Api row or one; a user holds up to MaxRoles roles.
RoleOptions == {{}} \cup {{api} : api \in ApiRows}
RoleLists == UNION {[1..n -> RoleOptions] : n \in 0..MaxRoles}

NoPermResult == PermResult(0, "none", "none", <<>>)
NoPermUser == [is_superuser |-> FALSE, roles |-> <<>>]

HasPermission(method, path) ==
    /\ perm_res' = has_permission(perm_in, method, path)
    /\ UNCHANGED perm_in

PermNext == \E m \in Methods, p \in RequestPaths : HasPermission(m, p)

(***************************************************************************)
(* repositories/dept.py: get_dept_tree                                     *)
(***************************************************************************)
(***************************************************************************)
(* utils/sensitive_word_filter.py                                          *)
(***************************************************************************)
\* An item of settings.SENSITIVE_WORDS: a string, or a value that is no
\* string (word.strip() raises on it).
WordItem(is_str, str) == [is_str |-> is_str, s |-> str]

WordItems ==
    {WordItem(TRUE, <<"a", "b">>), WordItem(TRUE, <<"A">>), WordItem(TRUE, <<" ">>),
     WordItem(FALSE, <<>>)}
WordLists == UNION {[1..n -> WordItems] : n \in 0..MaxWords}

\* str.lower and str.strip over the alphabet in use.
LowerChar(c) == IF c = "A" THEN "a" ELSE IF c = "B" THEN "b" ELSE c
lower(str) == [i \in DOMAIN str |-> LowerChar(str[i])]

RECURSIVE lstrip(_)
lstrip(str) == IF str # <<>> /\ Head(str) = " " THEN lstrip(Tail(str)) ELSE str

RECURSIVE rstrip(_)
rstrip(str) ==
    IF str # <<>> /\ str[Len(str)] = " " THEN rstrip(SubSeq(str, 1, Len(str) - 1)) ELSE str

strip(str) == rstrip(lstrip(str))

\* ahocorasick.Automaton: "empty" without words, "trie" once words were
\* added, "ahocorasick" after make_automaton; words maps each key to the value
\* stored last under it.  "None" stands for self.automaton = None.
Automaton(kind, words) == [kind |-> kind, words |-> words]
NoAutomaton == Automaton("None", {})

\* The words add_word has stored after the first n items of the list.
AddedWords(ws, n) ==
    LET idx == {i \in 1..n : strip(ws[i].s) # <<>>}
        last(k) == CHOOSE i \in idx :
                      /\ lower(strip(ws[i].s)) = k
                      /\ \A j \in idx : lower(strip(ws[j].s)) = k => j <= i
    IN  {[key |-> k, word |-> strip(ws[last(k)].s)] :
            k \in {lower(strip(ws[i].s)) : i \in idx}}

\* len(automaton) > 0, the truth value "not self.automaton" tests.
Truthy(automaton) == automaton.kind # "None" /\ automaton.words # {}

_build_automaton(self, cfg) ==
    LET ws == cfg.SENSITIVE_WORDS
        bad == {i \in DOMAIN ws : ~ws[i].is_str}
    IN  IF ~self.enabled THEN self
        ELSE IF bad = {}
        THEN [enabled |-> TRUE,
              automaton |-> LET w == AddedWords(ws, Len(ws)) IN
                            Automaton(IF w = {} THEN "empty" ELSE "ahocorasick", w)]
        ELSE LET k == CHOOSE i \in bad : \A j \in bad : i <= j
                 w == AddedWords(ws, k - 1) IN
             [enabled |-> FALSE,
              automaton |-> Automaton(IF w = {} THEN "empty" ELSE "trie", w)]

contains_sensitive_word_case_sensitive(self, text) ==
    IF ~self.enabled \/ ~Truthy(self.automaton) \/ text = <<>>
       \/ self.automaton.kind # "ahocorasick"
    THEN [found |-> FALSE, matched |-> <<>>]
    ELSE LET hits == {h \in [e : 1..Len(text), w : self.automaton.words] :
                         /\ h.e >= Len(h.w.key)
                         /\ SubSeq(text, h.e - Len(h.w.key) + 1, h.e) = h.w.key}
         IN  IF hits = {} THEN [found |-> FALSE, matched |-> <<>>]
             ELSE LET first == CHOOSE h \in hits :
                                  \A g \in hits :
                                     \/ h.e < g.e
                                     \/ h.e = g.e /\ Len(h.w.key) >= Len(g.w.key)
                  IN  [found |-> TRUE, matched |-> first.w.word]

\* automaton.iter yields matches by end index, the longest key first among
\* those ending at the same index; the first one is returned.
contains_sensitive_word(self, text) ==
    IF ~self.enabled \/ ~Truthy(self.automaton) \/ text = <<>>
       \/ self.automaton.kind # "ahocorasick"
    THEN [found |-> FALSE, matched |-> <<>>]
    ELSE LET text_lower == lower(text)
             hits == {h \in [e : 1..Len(text), w : self.automaton.words] :
                         /\ h.e >= Len(h.w.key)
                         /\ SubSeq(text_lower, h.e - Len(h.w.key) + 1, h.e) = h.w.key}
         IN  IF hits = {} THEN [found |-> FALSE, matched |-> <<>>]
             ELSE LET first == CHOOSE h \in hits :
                                  \A g \in hits :
                                     \/ h.e < g.e
                                     \/ h.e = g.e /\ Len(h.w.key) >= Len(g.w.key)
                  IN  [found |-> TRUE, matched |-> first.w.word]

\* A chunk of the stream, by what the parse in filter_streaming_chunk makes of
\* it: "empty" (""), "plain" (no "data:" prefix), "blank" and "done" (nothing
\* or "[DONE]" after the prefix), "raw" (text after the prefix that is not
\* JSON), "json" (an object; a missing field is the empty text) and
\* "json_scalar" (JSON that is no object).
Chunk(kind, answer, text, content, raw) ==
    [kind |-> kind, answer |-> answer, text |-> text, content |-> content, raw |-> raw]

NoChunk == Chunk("none", <<>>, <<>>, <<>>, <<>>)
NoneChunk == Chunk("None", <<>>, <<>>, <<>>, <<>>)

Chunks ==
    {Chunk(k, <<>>, <<>>, <<>>, <<>>) : k \in {"empty", "blank", "done", "json_scalar"}}
    \cup {Chunk(k, <<>>, <<>>, <<>>, r) : k \in {"plain", "raw"}, r \in {<<"a">>, <<"x", " ">>}}
    \cup {Chunk("json", a, t, c, <<>>) :
             a \in {<<>>, <<"a">>}, t \in {<<>>, <<"B">>}, c \in {<<>>, <<"x">>}}

ScanTexts == {<<>>, <<"a">>, <<"b">>, <<"x", "A", "B">>}

filter_streaming_chunk_fail_closed(self, chunk) ==
    IF chunk.kind = "empty" THEN chunk
    ELSE IF ~self.enabled THEN NoneChunk
    ELSE IF chunk.kind \in {"plain", "blank", "done", "json_scalar"} THEN chunk
    ELSE IF chunk.kind = "json"
    THEN LET text_to_check == chunk.answer \o chunk.text \o chunk.content IN
         IF text_to_check # <<>> /\ contains_sensitive_word(self, text_to_check).found
         THEN NoneChunk ELSE chunk
    ELSE IF contains_sensitive_word(self, strip(chunk.raw)).found THEN NoneChunk
    ELSE chunk

filter_streaming_chunk(self, chunk) ==
    IF chunk.kind = "empty" \/ ~self.enabled THEN chunk
    ELSE IF chunk.kind \in {"plain", "blank", "done", "json_scalar"} THEN chunk
    ELSE IF chunk.kind = "json"
    THEN LET text_to_check == chunk.answer \o chunk.text \o chunk.content IN
         IF text_to_check # <<>> /\ contains_sensitive_word(self, text_to_check).found
         THEN NoneChunk ELSE chunk
    ELSE IF contains_sensitive_word(self, strip(chunk.raw)).found THEN NoneChunk
    ELSE chunk

Settings(on, ws) == [ENABLE_SENSITIVE_WORD_FILTER |-> on, SENSITIVE_WORDS |-> ws]
NoSettings == Settings(FALSE, <<>>)
NoFilter == [enabled |-> FALSE, automaton |-> NoAutomaton]

FilterResult(op, found, matched, out) ==
    [op |-> op, found |-> found, matched |-> matched, out |-> out]
NoFilterResult == FilterResult("none", FALSE, <<>>, NoChunk)

\* The configured word list is replaced while the process runs.
SetWords(ws) ==
    /\ ws # settings.SENSITIVE_WORDS
    /\ settings' = [settings EXCEPT !.SENSITIVE_WORDS = ws]
    /\ UNCHANGED <<sensitive_word_filter, filter_res, flushed>>

reload_sensitive_words ==
    /\ sensitive_word_filter' = _build_automaton(sensitive_word_filter, settings)
    /\ filter_res' = FilterResult("reload", TRUE, <<>>, NoChunk)
    /\ UNCHANGED <<settings, flushed>>

ContainsSensitiveWord(text) ==
    LET r == contains_sensitive_word(sensitive_word_filter, text) IN
    /\ filter_res' = FilterResult("contains", r.found, r.matched, NoChunk)
    /\ UNCHANGED <<settings, sensitive_word_filter, flushed>>

FilterStreamingChunk(chunk) ==
    LET r == filter_streaming_chunk(sensitive_word_filter, chunk) IN
    /\ filter_res' = FilterResult("chunk", r = NoneChunk, <<>>, r)
    /\ flushed' = IF r = NoneChunk THEN flushed ELSE r
    /\ UNCHANGED <<settings, sensitive_word_filter>>

FilterNext ==
    \/ \E ws \in WordLists : SetWords(ws)
    \/ reload_sensitive_words
    \/ \E text \in ScanTexts : ContainsSensitiveWord(text)
    \/ \E chunk \in Chunks : FilterStreamingChunk(chunk)

\* Contains(s, sub): sub occurs in s as a contiguous run of characters.
Contains(s, sub) ==
    \E i \in 0..(Len(s) - Len(sub)) : SubSeq(s, i + 1, i + Len(sub)) = sub

DeptNames == {<<"a">>, <<"a", "b">>, <<"b">>}
DeptOrders == {0, 1}
NameArgs == {<<>>, <<"a">>, <<"b">>}

\* Dept.name is unique; parent_id is whatever create or update stored.
TreeDeptTables ==
    UNION {{t \in [1..n -> [name : DeptNames, order : DeptOrders,
                            parent_id : 0..n, is_deleted : BOOLEAN]] :
               \A i, j \in 1..n : i # j => t[i].name # t[j].name} :
           n \in 0..MaxTreeDept}

\* Q(is_deleted=False) & Q(name__contains=name), the latter only for a
\* non-empty name.
SelectedDepts_with_deleted(rows, name) ==
    {id \in DOMAIN rows : name # <<>> => Contains(rows[id].name, name)}

SelectedDepts(rows, name) ==
    {id \in DOMAIN rows :
        /\ ~rows[id].is_deleted
        /\ name # <<>> => Contains(rows[id].name, name)}

OrderBy_repeating(rows, ids) ==
    {q \in [1..(Cardinality(ids) + 1) -> ids] :
        \A i, j \in DOMAIN q : i < j => rows[q[i]].order <= rows[q[j]].order}

\* order_by("order"): the selected rows in ascending order; rows of equal
\* order come in an order the database chooses.
OrderBy(rows, ids) ==
    {q \in [1..Cardinality(ids) -> ids] :
        /\ \A i, j \in DOMAIN q : i # j => q[i] # q[j]
        /\ \A i, j \in DOMAIN q : i < j => rows[q[i]].order <= rows[q[j]].order}

RECURSIVE build_tree(_, _, _)
build_tree(rows, all_depts, parent_id) ==
    LET kids == SelectSeq(all_depts, LAMBDA id : rows[id].parent_id = parent_id) IN
    [i \in 1..Len(kids) |->
        [id |-> kids[i],
         name |-> rows[kids[i]].name,
         order |-> rows[kids[i]].order,
         parent_id |-> rows[kids[i]].parent_id,
         children |-> build_tree(rows, all_depts, kids[i])]]

TreeResult(called, name, tree) == [called |-> called, name |-> name, tree |-> tree]
NoTreeResult == TreeResult(FALSE, <<>>, <<>>)

get_dept_tree(name) ==
    /\ \E all_depts \in OrderBy(tree_depts, SelectedDepts(tree_depts, name)) :
          tree_res' = TreeResult(TRUE, name, build_tree(tree_depts, all_depts, 0))
    /\ UNCHANGED tree_depts

TreeNext == \E name \in NameArgs : get_dept_tree(name)

(***************************************************************************)
(* utils/cache.py: the Redis cache manager and the @cached decorator.      *)
(***************************************************************************)
MaxCalls == 2          \* wrapped-function invocations followed in one behaviour
MaxEntries == 1        \* keys Redis holds at one time

CACHE_TTL == 300       \* settings.CACHE_TTL, seconds

\* A Python value: its type, for a response its class, and its content.
PyValue(type, cls, items) == [type |-> type, cls |-> cls, items |-> items]

PyNone == PyValue("NoneType", "", <<>>)

\* A JSON text as Redis stores it; NoData is the nil Redis answers for a
\* key it does not hold.
JsonText(type, cls, items) == [type |-> type, cls |-> cls, items |-> items]

NoData == JsonText("nil", "", <<>>)

\* json.dumps(value, default=str): a str becomes a JSON string, a tuple and
\* a list both become a JSON array, a dict a JSON object.
json_dumps(value) ==
    CASE value.type = "str" -> JsonText("string", "", value.items)
      [] value.type \in {"tuple", "list"} -> JsonText("array", "", value.items)
      [] OTHER -> JsonText("object", value.cls, value.items)

\* json.loads(data): a JSON array always comes back as a list.
json_loads(data) ==
    CASE data.type = "string" -> PyValue("str", "", data.items)
      [] data.type = "array" -> PyValue("list", "", data.items)
      [] OTHER -> PyValue("dict", data.cls, data.items)

\* str() of an int argument.
py_str_int(n) == <<"0", "1", "2", "3", "4", "5">>[n + 1]

\* str() of the UserService instance a method call passes as self.
SelfRepr == "<UserService object>"

\* What a call on CacheManager hands back: the returned value, whether an
\* exception left the method, and the keys Redis holds afterwards.
CacheOutcome(ret, raised, db) == [ret |-> ret, raised |-> raised, db |-> db]

\* Redis: a key is held until its expiry time is reached.
Live(db, t) == {e \in db : e.exp > t}

redis_get(db, key, t) ==
    IF \E e \in Live(db, t) : e.key = key
    THEN (CHOOSE e \in Live(db, t) : e.key = key).data
    ELSE NoData

redis_setex(db, key, ttl, data, t) ==
    {e \in db : e.key # key} \cup {[key |-> key, data |-> data, exp |-> t + ttl]}

redis_delete(db, keys) == {e \in db : e.key \notin keys}

\* KEYS pattern: a pattern whose last part is * matches every key that
\* starts with the parts before it; any other pattern matches itself only.
GlobMatch(pattern, key) ==
    IF pattern # <<>> /\ pattern[Len(pattern)] = "*"
    THEN /\ Len(key) >= Len(pattern)
         /\ \A i \in 1..(Len(pattern) - 1) : key[i] = pattern[i]
    ELSE key = pattern

redis_keys(db, pattern, t) == {e.key : e \in {x \in Live(db, t) : GlobMatch(pattern, x.key)}}

\* get without the try/except: an exception of the Redis call leaves the method.
CacheManager_get_unguarded(redis, db, key, t, raises) ==
    IF redis = "None" THEN CacheOutcome(PyNone, FALSE, db)
    ELSE IF raises THEN CacheOutcome(PyNone, TRUE, db)
    ELSE LET data == redis_get(db, key, t) IN
         CacheOutcome(IF data # NoData THEN json_loads(data) ELSE PyNone, FALSE, db)

CacheManager_get(redis, db, key, t, raises) ==
    IF redis = "None" THEN CacheOutcome(PyNone, FALSE, db)
    ELSE IF raises THEN CacheOutcome(PyNone, FALSE, db)
    ELSE LET data == redis_get(db, key, t) IN
         CacheOutcome(IF data # NoData THEN json_loads(data) ELSE PyNone, FALSE, db)

\* ttl 0 stands for ttl=None: `ttl or settings.CACHE_TTL`.
CacheManager_set(redis, db, key, value, ttl, t, raises) ==
    IF redis = "None" THEN CacheOutcome(FALSE, FALSE, db)
    ELSE IF raises THEN CacheOutcome(FALSE, FALSE, db)
    ELSE CacheOutcome(TRUE, FALSE,
                      redis_setex(db, key, IF ttl # 0 THEN ttl ELSE CACHE_TTL,
                                  json_dumps(value), t))

CacheManager_delete(redis, db, key, t, raises) ==
    IF redis = "None" THEN CacheOutcome(FALSE, FALSE, db)
    ELSE IF raises THEN CacheOutcome(FALSE, FALSE, db)
    ELSE CacheOutcome(redis_get(db, key, t) # NoData, FALSE, redis_delete(db, {key}))

CacheManager_exists(redis, db, key, t, raises) ==
    IF redis = "None" THEN CacheOutcome(FALSE, FALSE, db)
    ELSE IF raises THEN CacheOutcome(FALSE, FALSE, db)
    ELSE CacheOutcome(redis_get(db, key, t) # NoData, FALSE, db)

CacheManager_clear_pattern(redis, db, pattern, t, raises) ==
    IF redis = "None" THEN CacheOutcome(0, FALSE, db)
    ELSE IF raises THEN CacheOutcome(0, FALSE, db)
    ELSE LET keys == redis_keys(db, pattern, t) IN
         CacheOutcome(Cardinality(keys), FALSE, redis_delete(db, keys))

\* ":".join([prefix] + [str(arg) for arg in args]); args holds the str()
\* of each argument, the key is kept as its parts.
CacheManager_cache_key(prefix, args) == <<prefix>> \o args

\* The wrapper @cached(prefix, ttl) puts around a function, called with
\* args; result is what the function returns when it is invoked.
CachedOutcome(result, called, raised, db) ==
    [result |-> result, called |-> called, raised |-> raised, db |-> db]

cached(redis, db, t, prefix, ttl, args, result, get_raises, set_raises) ==
    LET cache_key == CacheManager_cache_key(prefix, args)
        got == CacheManager_get(redis, db, cache_key, t, get_raises)
        cached_result == got.ret
    IN  IF got.raised THEN CachedOutcome(PyNone, FALSE, TRUE, db)
        ELSE IF cached_result # PyNone
        THEN CachedOutcome(IF cached_result.type = "dict" /\ cached_result.cls # ""
                           THEN PyValue("Response", cached_result.cls, cached_result.items)
                           ELSE cached_result,
                           FALSE, FALSE, db)
        ELSE IF result # PyNone
        THEN LET value_to_cache ==
                     IF result.type = "Response"
                     THEN PyValue("dict", result.cls, result.items)
                     ELSE result
                 put == CacheManager_set(redis, db, cache_key, value_to_cache, ttl, t, set_raises)
             IN  CachedOutcome(result, TRUE, put.raised, put.db)
        ELSE CachedOutcome(result, TRUE, FALSE, db)

\* clear_user_cache(user_id): the four patterns, cleared one after another.
UserCachePatterns(user_id) ==
    << <<"user", py_str_int(user_id), "*">>,
       <<"userinfo", py_str_int(user_id)>>,
       <<"user_roles", py_str_int(user_id)>>,
       <<"user_permissions", py_str_int(user_id)>> >>

RECURSIVE clear_patterns(_, _, _, _, _, _)
clear_patterns(redis, db, patterns, i, t, raises) ==
    IF i > Len(patterns) THEN CacheOutcome(0, FALSE, db)
    ELSE LET one == CacheManager_clear_pattern(redis, db, patterns[i], t, raises)
             rest == clear_patterns(redis, one.db, patterns, i + 1, t, raises)
         IN  CacheOutcome(one.ret + rest.ret, one.raised \/ rest.raised, rest.db)

clear_user_cache(redis, db, user_id, t, raises) ==
    clear_patterns(redis, db, UserCachePatterns(user_id), 1, t, raises)

\* The functions the decorator wraps: the test function returning a str,
\* functions returning a tuple or None, each with ttl 60.
FuncKinds == {"str", "tuple", "NoneType"}

FuncParams == {"a", "b"}

FuncPrefix(kind) == "test_decorator_" \o kind

test_function(kind, param) ==
    IF kind = "NoneType" THEN PyNone ELSE PyValue(kind, "", <<"result", param>>)

\* get_user_detail's own body: the response for the user row as it is now.
get_user_detail_body(us, user_id) ==
    IF user_id \in DOMAIN us /\ us[user_id].exists
    THEN PyValue("Response", "Success",
                 <<py_str_int(user_id), IF us[user_id].is_active THEN "active" ELSE "inactive">>)
    ELSE PyValue("Response", "Fail", <<"User does not exist">>)

UserDetailKey(user_id) == CacheManager_cache_key("user_detail", <<SelfRepr, py_str_int(user_id)>>)

\* Keys and values of the direct get/set/delete/exists calls.
DirectKeys == {<<"test_key">>, <<"userinfo", "1">>, <<"user", "1", "profile">>}

DirectValues == {PyValue("str", "", <<"data">>)}

FuncKeys ==
    {CacheManager_cache_key(FuncPrefix(k), <<p>>) : k \in FuncKinds, p \in FuncParams}

CacheKeys == DirectKeys \cup FuncKeys \cup {UserDetailKey(u) : u \in UserIds}

ClearPatterns == {<<"user", "1", "*">>, <<"test_key">>}

CacheTickSteps == {59, CACHE_TTL - 59}

CacheResult(op, value, ok, n, called, raised) ==
    [op |-> op, value |-> value, ok |-> ok, n |-> n, called |-> called, raised |-> raised]

NoCacheResult == CacheResult("none", PyNone, FALSE, 0, FALSE, FALSE)

cacheFrame == <<issued, used, reused, resp, ctx_user_id>>

\* cache_manager.connect() at start-up: ok tells whether Redis answered the ping.
Connect(ok) ==
    /\ cache_redis = "None"
    /\ cache_redis' = IF ok THEN "connected" ELSE "None"
    /\ cache_res' = CacheResult("connect", PyNone, ok, 0, FALSE, FALSE)
    /\ UNCHANGED <<redis_db, call_count, now, ticks, users, cacheFrame>>

Disconnect ==
    /\ cache_redis # "None"
    /\ cache_redis' = "None"
    /\ cache_res' = CacheResult("disconnect", PyNone, TRUE, 0, FALSE, FALSE)
    /\ UNCHANGED <<redis_db, call_count, now, ticks, users, cacheFrame>>

\* Time passes; Redis drops the keys whose expiry time is reached.
CacheTick(d) ==
    /\ ticks < MaxTicks
    /\ now' = now + d
    /\ ticks' = ticks + 1
    /\ redis_db' = Live(redis_db, now + d)
    /\ UNCHANGED <<cache_redis, call_count, cache_res, users, cacheFrame>>

CanHold(key) == Cardinality({e.key : e \in redis_db} \cup {key}) <= MaxEntries

CacheGet(key, raises) ==
    /\ LET r == CacheManager_get(cache_redis, redis_db, key, now, raises) IN
         /\ cache_res' = CacheResult("get", r.ret, FALSE, 0, FALSE, r.raised)
         /\ redis_db' = r.db
    /\ UNCHANGED <<cache_redis, call_count, now, ticks, users, cacheFrame>>

CacheSet(key, value, ttl, raises) ==
    /\ CanHold(key)
    /\ LET r == CacheManager_set(cache_redis, redis_db, key, value, ttl, now, raises) IN
         /\ cache_res' = CacheResult("set", PyNone, r.ret, 0, FALSE, r.raised)
         /\ redis_db' = r.db
    /\ UNCHANGED <<cache_redis, call_count, now, ticks, users, cacheFrame>>

CacheDelete(key, raises) ==
    /\ LET r == CacheManager_delete(cache_redis, redis_db, key, now, raises) IN
         /\ cache_res' = CacheResult("delete", PyNone, r.ret, 0, FALSE, r.raised)
         /\ redis_db' = r.db
    /\ UNCHANGED <<cache_redis, call_count, now, ticks, users, cacheFrame>>

CacheExists(key, raises) ==
    /\ LET r == CacheManager_exists(cache_redis, redis_db, key, now, raises) IN
         /\ cache_res' = CacheResult("exists", PyNone, r.ret, 0, FALSE, r.raised)
         /\ redis_db' = r.db
    /\ UNCHANGED <<cache_redis, call_count, now, ticks, users, cacheFrame>>

ClearPattern(pattern, raises) ==
    /\ LET r == CacheManager_clear_pattern(cache_redis, redis_db, pattern, now, raises) IN
         /\ cache_res' = CacheResult("clear_pattern", PyNone, FALSE, r.ret, FALSE, r.raised)
         /\ redis_db' = r.db
    /\ UNCHANGED <<cache_redis, call_count, now, ticks, users, cacheFrame>>

\* A call of the wrapped test function.
CallCached(kind, param, get_raises, set_raises) ==
    /\ CanHold(CacheManager_cache_key(FuncPrefix(kind), <<param>>))
    /\ LET r == cached(cache_redis, redis_db, now, FuncPrefix(kind), 60, <<param>>,
                       test_function(kind, param), get_raises, set_raises) IN
         /\ r.called => call_count < MaxCalls
         /\ call_count' = IF r.called THEN call_count + 1 ELSE call_count
         /\ cache_res' = CacheResult("cached", r.result, FALSE, 0, r.called, r.raised)
         /\ redis_db' = r.db
    /\ UNCHANGED <<cache_redis, now, ticks, users, cacheFrame>>

\* user_service.get_user_detail(user_id), wrapped by @cached("user_detail", ttl=300).
GetUserDetail(user_id, get_raises, set_raises) ==
    /\ CanHold(UserDetailKey(user_id))
    /\ LET r == cached(cache_redis, redis_db, now, "user_detail", 300,
                       <<SelfRepr, py_str_int(user_id)>>,
                       get_user_detail_body(users, user_id), get_raises, set_raises) IN
         /\ r.called => call_count < MaxCalls
         /\ call_count' = IF r.called THEN call_count + 1 ELSE call_count
         /\ cache_res' = CacheResult("get_user_detail", r.result, FALSE, 0, r.called, r.raised)
         /\ redis_db' = r.db
    /\ UNCHANGED <<cache_redis, now, ticks, users, cacheFrame>>

\* user_service.update_user(user_in): the row is updated, then the user's
\* cache is cleared; a missing user makes the repository raise and the
\* service answers Fail.
UpdateUser(user_id, is_active, raises) ==
    /\ IF users[user_id].exists
       THEN LET r == clear_user_cache(cache_redis, redis_db, user_id, now, raises) IN
              /\ users' = [users EXCEPT ![user_id].is_active = is_active]
              /\ redis_db' = r.db
              /\ cache_res' = CacheResult("update_user", PyNone, TRUE, r.ret, FALSE, r.raised)
       ELSE /\ cache_res' = CacheResult("update_user", PyNone, FALSE, 0, FALSE, FALSE)
            /\ UNCHANGED <<users, redis_db>>
    /\ UNCHANGED <<cache_redis, call_count, now, ticks, cacheFrame>>

RemoveUser(user_id, raises) ==
    /\ IF users[user_id].exists
       THEN LET r == clear_user_cache(cache_redis, redis_db, user_id, now, raises) IN
              /\ users' = [users EXCEPT ![user_id].exists = FALSE]
              /\ redis_db' = r.db
              /\ cache_res' = CacheResult("delete_user", PyNone, TRUE, r.ret, FALSE, r.raised)
       ELSE /\ cache_res' = CacheResult("delete_user", PyNone, FALSE, 0, FALSE, FALSE)
            /\ UNCHANGED <<users, redis_db>>
    /\ UNCHANGED <<cache_redis, call_count, now, ticks, cacheFrame>>

CacheNext ==
    \/ \E ok \in BOOLEAN : Connect(ok)
    \/ Disconnect
    \/ \E d \in CacheTickSteps : CacheTick(d)
    \/ \E key \in DirectKeys, raises \in BOOLEAN : CacheGet(key, raises)
    \/ \E key \in DirectKeys, value \in DirectValues, ttl \in {0, 60}, raises \in BOOLEAN :
          CacheSet(key, value, ttl, raises)
    \/ \E key \in CacheKeys, raises \in BOOLEAN : CacheDelete(key, raises)
    \/ \E key \in DirectKeys, raises \in BOOLEAN : CacheExists(key, raises)
    \/ \E pattern \in ClearPatterns, raises \in BOOLEAN : ClearPattern(pattern, raises)
    \/ \E kind \in FuncKinds, param \in FuncParams, gr \in BOOLEAN, sr \in BOOLEAN :
          CallCached(kind, param, gr, sr)
    \/ \E u \in UserIds, gr \in BOOLEAN, sr \in BOOLEAN : GetUserDetail(u, gr, sr)
    \/ \E u \in UserIds, b \in BOOLEAN, raises \in BOOLEAN : UpdateUser(u, b, raises)
    \/ \E u \in UserIds, raises \in BOOLEAN : RemoveUser(u, raises)

(***************************************************************************)
(* core/middlewares.py: the audit-log middleware.                          *)
(***************************************************************************)
MaxAudit == 2          \* AuditLog rows written in one behaviour

\* HttpAuditLogMiddleware(methods=..., exclude_paths=...) as make_middlewares
\* builds it; a path and a pattern are the sequences of their characters.
AuditMethods == {"GET", "POST", "PUT", "DELETE"}

AccessTokenPath == <<"/", "a", "p", "i", "/", "v", "1", "/", "b", "a", "s", "e", "/", "a", "c", "c", "e", "s", "s", "_", "t", "o", "k", "e", "n">>

exclude_paths == <<AccessTokenPath, <<"/", "d", "o", "c", "s">>, <<"/", "o", "p", "e", "n", "a", "p", "i", ".", "j", "s", "o", "n">>>>

DeptListPath == <<"/", "a", "p", "i", "/", "v", "1", "/", "d", "e", "p", "t", "/", "l", "i", "s", "t">>

\* Case folding of re.I over the letters the request paths hold in upper case.
re_fold(c) ==
    CASE c = "D" -> "d" [] c = "O" -> "o" [] c = "C" -> "c" [] c = "S" -> "s" [] OTHER -> c

\* re.search(pattern, path, re.I) is not None, for patterns made of literal
\* characters and the dot, which stands for any character.
re_search(pattern, path) ==
    \E i \in 0..(Len(path) - Len(pattern)) :
       \A k \in 1..Len(pattern) :
          pattern[k] = "." \/ re_fold(pattern[k]) = re_fold(path[i + k])

\* A request: the credentials of its Authorization header, the token of
\* its "token" header (NoToken when absent), and whether its handler ends
\* in an exception that only the handler registered for Exception covers.
Request(method, path, authorization, token, raises) ==
    [method |-> method, path |-> path, authorization |-> authorization,
     token |-> token, raises |-> raises]

ValidToken == create_token_pair(1, 0).access

AuditRequestMethods == AuditMethods \cup {"PATCH"}

AuditPaths == {AccessTokenPath, DeptListPath, <<"/", "D", "O", "C", "S">>, <<"/", "o", "p", "e", "n", "a", "p", "i", "-", "j", "s", "o", "n">>}

Requests ==
    {Request(m, p, a, k, r) : m \in AuditRequestMethods, p \in AuditPaths,
                              a \in {NoToken, ValidToken}, k \in {NoToken, ValidToken},
                              r \in BOOLEAN}

UsernameOf(user_id) == <<"user1", "user2", "user3">>[user_id]

\* call_next(request): the route's answer. The department route depends on
\* is_authed over the Authorization header; the token route is open; any
\* other path has no route. raised: the exception went through dispatch.
call_next(us, request, t) ==
    IF request.path = DeptListPath
    THEN IF is_authed(us, request.authorization, t).status # 200
         THEN [status |-> 401, raised |-> FALSE]
         ELSE IF request.raises THEN [status |-> 500, raised |-> TRUE]
         ELSE [status |-> 200, raised |-> FALSE]
    ELSE IF request.path = AccessTokenPath
    THEN IF request.raises THEN [status |-> 500, raised |-> TRUE]
         ELSE [status |-> 200, raised |-> FALSE]
    ELSE [status |-> 404, raised |-> FALSE]

\* AuthControl.is_authed handed the str of the "token" header: a str has
\* no credentials attribute, and the AttributeError becomes the 401.
is_authed_of(us, has_credentials, token, t) ==
    IF ~has_credentials
    THEN Response("authed", 401, "Authentication failed", NoToken, NoToken, 0, t)
    ELSE is_authed(us, token, t)

AuditRow(user_id, username, method, path, status) ==
    [user_id |-> user_id, username |-> username, method |-> method,
     path |-> path, status |-> status]

get_request_log(us, request, status, t) ==
    LET authed == IF request.token # NoToken
                  THEN is_authed_of(us, FALSE, request.token, t)
                  ELSE Response("authed", 401, "none", NoToken, NoToken, 0, t)
        user_id == IF authed.status = 200 THEN authed.user_id ELSE 0
    IN  AuditRow(user_id, IF user_id # 0 THEN UsernameOf(user_id) ELSE "",
                 request.method, request.path, status)

after_request(log, us, request, status, t) ==
    IF request.method \in AuditMethods
    THEN IF \E i \in DOMAIN exclude_paths : re_search(exclude_paths[i], request.path)
         THEN log
         ELSE Append(log, get_request_log(us, request, status, t))
    ELSE log

dispatch(log, us, request, t) ==
    LET response == call_next(us, request, t) IN
    IF response.raised
    THEN [log |-> log, status |-> response.status]
    ELSE [log |-> after_request(log, us, request, response.status, t),
          status |-> response.status]

AuditResult(request, status) == [request |-> request, status |-> status]

NoAuditResult == AuditResult(Request("none", <<>>, NoToken, NoToken, FALSE), 0)

HttpRequest(request) ==
    /\ Len(audit_log) < MaxAudit
    /\ LET r == dispatch(audit_log, users, request, now) IN
         /\ audit_log' = r.log
         /\ audit_res' = AuditResult(request, r.status)

AuditNext == \E request \in Requests : HttpRequest(request)

(***************************************************************************)
(* repositories/dept.py: two update_dept calls with interleaved statements.*)
(***************************************************************************)
NoCalls == <<>>

\* The table the two calls start from, built by create_dept: departments 1
\* and 3 are roots, 2 lies under 1, and 4, the one both calls move, under 2.
RaceTables ==
    LET t1 == create_dept_body(<<>>, EmptyBag, 0, "none")
        t2 == create_dept_body(t1.dept, t1.closure, 1, "none")
        t3 == create_dept_body(t2.dept, t2.closure, 0, "none")
    IN  create_dept_body(t3.dept, t3.closure, 2, "none")

\* The department both calls move: the one created last.
RaceDept == Len(RaceTables.dept)

RaceParents == {0, 1, 2, 3}

Procs == {1, 2}

\* One update_dept call: where it stands, the parent_id of its obj_in, the
\* parent_id of the dept_obj it read, and the parent_depts it read.
Call(pc, parent_id, dept_obj, parent_depts) ==
    [pc |-> pc, parent_id |-> parent_id, dept_obj |-> dept_obj, parent_depts |-> parent_depts]

Other(p) == 3 - p

Underway(p) == calls[p].pc \notin {"start", "done"}

\* The rows update_dept_closure hands to bulk_create, from the parent rows
\* it read: one per parent row, a level further, and the self row.
bulk_create_rows(parent_depts, id) ==
    LET copied == [n \in {ClosureRow(r[1], id, r[3] + 1) : r \in DOMAIN parent_depts} |->
                     parent_depts[CHOOSE r \in DOMAIN parent_depts :
                                     ClosureRow(r[1], id, r[3] + 1) = n]]
    IN  copied (+) SetToBag({ClosureRow(id, id, 0)})

\* dept_obj = await self.get(id=obj_in.id), and the comparison of parents.
RaceGet(p) ==
    /\ calls[p].pc = "start"
    /\ calls' = [calls EXCEPT ![p].dept_obj = dept[RaceDept].parent_id,
                              ![p].pc = IF dept[RaceDept].parent_id # calls[p].parent_id
                                        THEN "delete_ancestor" ELSE "save"]
    /\ overlapped' = (overlapped \/ Underway(Other(p)))
    /\ UNCHANGED <<dept, closure, dept_res, moves>>

\* await DeptClosure.filter(ancestor=dept_obj.id).delete()
RaceDeleteAncestor(p) ==
    /\ calls[p].pc = "delete_ancestor"
    /\ closure' = DeleteWhereAncestor(closure, RaceDept)
    /\ calls' = [calls EXCEPT ![p].pc = "delete_descendant"]
    /\ overlapped' = (overlapped \/ Underway(Other(p)))
    /\ UNCHANGED <<dept, dept_res, moves>>

\* await DeptClosure.filter(descendant=dept_obj.id).delete()
RaceDeleteDescendant(p) ==
    /\ calls[p].pc = "delete_descendant"
    /\ closure' = DeleteWhereDescendant(closure, RaceDept)
    /\ calls' = [calls EXCEPT ![p].pc = "read_parents"]
    /\ overlapped' = (overlapped \/ Underway(Other(p)))
    /\ UNCHANGED <<dept, dept_res, moves>>

\* parent_depts = await DeptClosure.filter(descendant=obj.parent_id)
RaceReadParents(p) ==
    /\ calls[p].pc = "read_parents"
    /\ calls' = [calls EXCEPT
                   ![p].parent_depts = [r \in {x \in DOMAIN closure : x[2] = calls[p].dept_obj} |->
                                          closure[r]],
                   ![p].pc = "bulk_create"]
    /\ overlapped' = (overlapped \/ Underway(Other(p)))
    /\ UNCHANGED <<dept, closure, dept_res, moves>>

\* await DeptClosure.bulk_create(dept_closure_objs)
RaceBulkCreate(p) ==
    /\ calls[p].pc = "bulk_create"
    /\ closure' = closure (+) bulk_create_rows(calls[p].parent_depts, RaceDept)
    /\ calls' = [calls EXCEPT ![p].pc = "save"]
    /\ overlapped' = (overlapped \/ Underway(Other(p)))
    /\ UNCHANGED <<dept, dept_res, moves>>

\* dept_obj.update_from_dict(...); await dept_obj.save()
RaceSave(p) ==
    /\ calls[p].pc = "save"
    /\ dept' = [dept EXCEPT ![RaceDept].parent_id = calls[p].parent_id]
    /\ calls' = [calls EXCEPT ![p].pc = "done"]
    /\ overlapped' = (overlapped \/ Underway(Other(p)))
    /\ UNCHANGED <<closure, dept_res, moves>>

RaceNext ==
    \E p \in Procs :
       \/ RaceGet(p)
       \/ RaceDeleteAncestor(p)
       \/ RaceDeleteDescendant(p)
       \/ RaceReadParents(p)
       \/ RaceBulkCreate(p)
       \/ RaceSave(p)

\* The tables start empty; the user of a permission check and the grants of
\* that user's roles are drawn from the bounded sets.
AuthInit ==
    /\ now = 0
    /\ ticks = 0
    /\ users = InitUsers
    /\ issued = {}
    /\ used = {}
    /\ reused = {}
    /\ resp = NoResponse
    /\ ctx_user_id = 0
    /\ dept = <<>>
    /\ closure = EmptyBag
    /\ dept_res = NoDeptResult
    /\ moves = 0
    /\ perm_in = NoPermUser
    /\ perm_res = NoPermResult
    /\ tree_depts = <<>>
    /\ tree_res = NoTreeResult
    /\ settings = NoSettings
    /\ sensitive_word_filter = NoFilter
    /\ filter_res = NoFilterResult
    /\ flushed = NoChunk
    /\ cache_redis = "None"
    /\ redis_db = {}
    /\ call_count = 0
    /\ cache_res = NoCacheResult
    /\ audit_log = <<>>
    /\ audit_res = NoAuditResult
    /\ calls = NoCalls
    /\ overlapped = FALSE

DeptInit ==
    /\ now = 0
    /\ ticks = 0
    /\ users = InitUsers
    /\ issued = {}
    /\ used = {}
    /\ reused = {}
    /\ resp = NoResponse
    /\ ctx_user_id = 0
    /\ dept = <<>>
    /\ closure = EmptyBag
    /\ dept_res = NoDeptResult
    /\ moves = 0
    /\ perm_in = NoPermUser
    /\ perm_res = NoPermResult
    /\ tree_depts = <<>>
    /\ tree_res = NoTreeResult
    /\ settings = NoSettings
    /\ sensitive_word_filter = NoFilter
    /\ filter_res = NoFilterResult
    /\ flushed = NoChunk
    /\ cache_redis = "None"
    /\ redis_db = {}
    /\ call_count = 0
    /\ cache_res = NoCacheResult
    /\ audit_log = <<>>
    /\ audit_res = NoAuditResult
    /\ calls = NoCalls
    /\ overlapped = FALSE

PermInit ==
    /\ now = 0
    /\ ticks = 0
    /\ users = InitUsers
    /\ issued = {}
    /\ used = {}
    /\ reused = {}
    /\ resp = NoResponse
    /\ ctx_user_id = 0
    /\ dept = <<>>
    /\ closure = EmptyBag
    /\ dept_res = NoDeptResult
    /\ moves = 0
    /\ perm_in \in [is_superuser : BOOLEAN, roles : RoleLists]
    /\ perm_res = NoPermResult
    /\ tree_depts = <<>>
    /\ tree_res = NoTreeResult
    /\ settings = NoSettings
    /\ sensitive_word_filter = NoFilter
    /\ filter_res = NoFilterResult
    /\ flushed = NoChunk
    /\ cache_redis = "None"
    /\ redis_db = {}
    /\ call_count = 0
    /\ cache_res = NoCacheResult
    /\ audit_log = <<>>
    /\ audit_res = NoAuditResult
    /\ calls = NoCalls
    /\ overlapped = FALSE

TreeInit ==
    /\ now = 0
    /\ ticks = 0
    /\ users = InitUsers
    /\ issued = {}
    /\ used = {}
    /\ reused = {}
    /\ resp = NoResponse
    /\ ctx_user_id = 0
    /\ dept = <<>>
    /\ closure = EmptyBag
    /\ dept_res = NoDeptResult
    /\ moves = 0
    /\ perm_in = NoPermUser
    /\ perm_res = NoPermResult
    /\ tree_depts \in TreeDeptTables
    /\ tree_res = NoTreeResult
    /\ settings = NoSettings
    /\ sensitive_word_filter = NoFilter
    /\ filter_res = NoFilterResult
    /\ flushed = NoChunk
    /\ cache_redis = "None"
    /\ redis_db = {}
    /\ call_count = 0
    /\ cache_res = NoCacheResult
    /\ audit_log = <<>>
    /\ audit_res = NoAuditResult
    /\ calls = NoCalls
    /\ overlapped = FALSE

\* SensitiveWordFilter.__init__: enabled is the setting, automaton None, then
\* the first build.
FilterInit ==
    /\ now = 0
    /\ ticks = 0
    /\ users = InitUsers
    /\ issued = {}
    /\ used = {}
    /\ reused = {}
    /\ resp = NoResponse
    /\ ctx_user_id = 0
    /\ dept = <<>>
    /\ closure = EmptyBag
    /\ dept_res = NoDeptResult
    /\ moves = 0
    /\ perm_in = NoPermUser
    /\ perm_res = NoPermResult
    /\ tree_depts = <<>>
    /\ tree_res = NoTreeResult
    /\ settings \in [ENABLE_SENSITIVE_WORD_FILTER : BOOLEAN, SENSITIVE_WORDS : WordLists]
    /\ sensitive_word_filter =
          _build_automaton([enabled |-> settings.ENABLE_SENSITIVE_WORD_FILTER,
                            automaton |-> NoAutomaton], settings)
    /\ filter_res = NoFilterResult
    /\ flushed = NoChunk
    /\ cache_redis = "None"
    /\ redis_db = {}
    /\ call_count = 0
    /\ cache_res = NoCacheResult
    /\ audit_log = <<>>
    /\ audit_res = NoAuditResult
    /\ calls = NoCalls
    /\ overlapped = FALSE

CacheInit ==
    /\ now = 0
    /\ ticks = 0
    /\ users = InitUsers
    /\ issued = {}
    /\ used = {}
    /\ reused = {}
    /\ resp = NoResponse
    /\ ctx_user_id = 0
    /\ dept = <<>>
    /\ closure = EmptyBag
    /\ dept_res = NoDeptResult
    /\ moves = 0
    /\ perm_in = NoPermUser
    /\ perm_res = NoPermResult
    /\ tree_depts = <<>>
    /\ tree_res = NoTreeResult
    /\ settings = NoSettings
    /\ sensitive_word_filter = NoFilter
    /\ filter_res = NoFilterResult
    /\ flushed = NoChunk
    /\ cache_redis = "None"
    /\ redis_db = {}
    /\ call_count = 0
    /\ cache_res = NoCacheResult
    /\ audit_log = <<>>
    /\ audit_res = NoAuditResult
    /\ calls = NoCalls
    /\ overlapped = FALSE

AuditInit ==
    /\ now = 0
    /\ ticks = 0
    /\ users = InitUsers
    /\ issued = {}
    /\ used = {}
    /\ reused = {}
    /\ resp = NoResponse
    /\ ctx_user_id = 0
    /\ dept = <<>>
    /\ closure = EmptyBag
    /\ dept_res = NoDeptResult
    /\ moves = 0
    /\ perm_in = NoPermUser
    /\ perm_res = NoPermResult
    /\ tree_depts = <<>>
    /\ tree_res = NoTreeResult
    /\ settings = NoSettings
    /\ sensitive_word_filter = NoFilter
    /\ filter_res = NoFilterResult
    /\ flushed = NoChunk
    /\ cache_redis = "None"
    /\ redis_db = {}
    /\ call_count = 0
    /\ cache_res = NoCacheResult
    /\ audit_log = <<>>
    /\ audit_res = NoAuditResult
    /\ calls = NoCalls
    /\ overlapped = FALSE

\* Both calls are about to start, each with a parent_id of its own.
RaceInit ==
    /\ now = 0
    /\ ticks = 0
    /\ users = InitUsers
    /\ issued = {}
    /\ used = {}
    /\ reused = {}
    /\ resp = NoResponse
    /\ ctx_user_id = 0
    /\ dept = RaceTables.dept
    /\ closure = RaceTables.closure
    /\ dept_res = NoDeptResult
    /\ moves = 0
    /\ perm_in = NoPermUser
    /\ perm_res = NoPermResult
    /\ tree_depts = <<>>
    /\ tree_res = NoTreeResult
    /\ settings = NoSettings
    /\ sensitive_word_filter = NoFilter
    /\ filter_res = NoFilterResult
    /\ flushed = NoChunk
    /\ cache_redis = "None"
    /\ redis_db = {}
    /\ call_count = 0
    /\ cache_res = NoCacheResult
    /\ audit_log = <<>>
    /\ audit_res = NoAuditResult
    /\ calls \in {<<Call("start", a, 0, EmptyBag), Call("start", b, 0, EmptyBag)>> :
                   a \in RaceParents, b \in RaceParents}
    /\ overlapped = FALSE

AuthSpec == AuthInit /\ [][AuthNext /\ UNCHANGED <<deptVars, permVars, treeVars, filterVars, cacheVars, auditVars, raceVars>>]_vars

DeptSpec == DeptInit /\ [][DeptNext /\ UNCHANGED <<authVars, permVars, treeVars, filterVars, cacheVars, auditVars, raceVars>>]_vars

DeptFailSpec == DeptInit /\ [][DeptFailNext /\ UNCHANGED <<authVars, permVars, treeVars, filterVars, cacheVars, auditVars, raceVars>>]_vars

PermSpec == PermInit /\ [][PermNext /\ UNCHANGED <<authVars, deptVars, treeVars, filterVars, cacheVars, auditVars, raceVars>>]_vars

FilterSpec == FilterInit /\ [][FilterNext /\ UNCHANGED <<authVars, deptVars, permVars, treeVars, cacheVars, auditVars, raceVars>>]_vars

CacheSpec == CacheInit /\ [][CacheNext /\ UNCHANGED <<deptVars, permVars, treeVars, filterVars, auditVars, raceVars>>]_vars

AuditSpec == AuditInit /\ [][AuditNext /\ UNCHANGED <<authVars, deptVars, permVars, treeVars, filterVars, cacheVars, raceVars>>]_vars

RaceSpec == RaceInit /\ [][RaceNext /\ UNCHANGED <<authVars, permVars, treeVars, filterVars, cacheVars, auditVars>>]_vars

TreeSpec == TreeInit /\ [][TreeNext /\ UNCHANGED <<authVars, deptVars, permVars, filterVars, cacheVars, auditVars, raceVars>>]_vars

(***************************************************************************)
(* Claims about tokens and the auth endpoints (checked under AuthSpec)     *)
(***************************************************************************)
Unexpired(tok) == now < tok.exp
WellSigned(tok) == tok.sig = SECRET_KEY
Active(uid) == uid \in UserIds /\ users[uid].exists /\ users[uid].is_active

\* C1: the two tokens of an issued pair differ; each verifies under its own
\* kind and returns the user it was issued to, as long as it is unexpired,
\* and never verifies under the other kind.
C1_TokenPairKinds ==
    /\ \A u \in UserIds :
         LET pair == create_token_pair(u, now)
             va == verify_token(pair.access, "access", now)
             vr == verify_token(pair.refresh, "refresh", now) IN
         /\ pair.access # pair.refresh
         /\ va.ok /\ va.payload.user_id = u /\ va.payload.token_type = "access"
         /\ vr.ok /\ vr.payload.user_id = u /\ vr.payload.token_type = "refresh"
    /\ (resp.status = 200 /\ resp.op \in {"login", "refresh"}) =>
         /\ resp.access # resp.refresh
         /\ resp.access.user_id = resp.user_id
         /\ resp.refresh.user_id = resp.user_id
    /\ \A tok \in issued :
         LET other == IF tok.token_type = "access" THEN "refresh" ELSE "access"
             own == verify_token(tok, tok.token_type, now) IN
         /\ ~verify_token(tok, other, now).ok
         /\ Unexpired(tok) =>
              (own.ok /\ own.payload.user_id = tok.user_id
                      /\ own.payload.token_type = tok.token_type)

\* A pair has been issued and the clock has moved on while it is still valid.
C1_Witness ==
    /\ resp.op = "login" /\ resp.status = 200
    /\ resp.at < now
    /\ Unexpired(resp.access) /\ Unexpired(resp.refresh)

\* C2: is_authed accepts a bearer token only if it is of kind access; when
\* a request is authenticated, the token it carried is an access token.
C2_OnlyAccessAuthenticates ==
    /\ (resp.op = "authed" /\ resp.status = 200) => resp.access.token_type = "access"
    /\ (resp.op = "authed" /\ ctx_user_id # 0) => resp.access.token_type = "access"

\* C3: a refresh call answers 200 with a pair exactly when the presented
\* token is well signed, unexpired, of kind refresh and names a user that
\* exists and is active now; otherwise it answers 401 and hands out nothing.
RefreshAllowed(tok) ==
    /\ WellSigned(tok) /\ Unexpired(tok) /\ tok.token_type = "refresh"
    /\ Active(tok.user_id)

C9_DeactivatedStillAuthed ==
    [][\A tok \in issued :
         ( /\ tok.token_type = "access" /\ Unexpired(tok)
           /\ users[tok.user_id].exists /\ ~users[tok.user_id].is_active
           /\ IsAuthed(tok) )
         => (resp'.status = 200 /\ ctx_user_id' = tok.user_id)]_vars

\* A request was authenticated for a user who exists but is inactive.
C9_Witness ==
    /\ resp.op = "authed" /\ resp.status = 200
    /\ ctx_user_id \in UserIds
    /\ users[ctx_user_id].exists /\ ~users[ctx_user_id].is_active

AuthAllowed(tok) ==
    /\ tok # NoToken
    /\ WellSigned(tok) /\ Unexpired(tok)
    /\ tok.user_id \in UserIds /\ users[tok.user_id].exists

C14_AuthedIffValidToken ==
    [][\A tok \in Presentable :
         IsAuthed(tok) =>
           /\ AuthAllowed(tok) =>
                /\ resp'.status = 200
                /\ resp'.user_id = tok.user_id
                /\ ctx_user_id' = tok.user_id
           /\ ~AuthAllowed(tok) =>
                /\ resp'.status = 401
                /\ ctx_user_id' = 0]_vars

\* A well signed, unexpired token was refused with 401 because its user no
\* longer exists, and CTX_USER_ID stayed unset.
C14_Witness ==
    /\ resp.op = "authed" /\ resp.status = 401
    /\ resp.detail = "Authentication failed"
    /\ ctx_user_id = 0
    /\ issued # {}
    /\ \A tok \in issued : Unexpired(tok) /\ ~users[tok.user_id].exists

\* C15: login records last_login and issues a pair for the user exactly when
\* the user exists, is active and the password matches; otherwise it fails
\* with 400 or 401, issues nothing and writes nothing.
LoginAllowed(uid, pw_ok) == users[uid].exists /\ users[uid].is_active /\ pw_ok

C15_LoginOnlyWhenAuthenticated ==
    [][\A uid \in UserIds, pw_ok \in BOOLEAN :
         Login(uid, pw_ok) =>
           /\ LoginAllowed(uid, pw_ok) =>
                /\ resp'.status = 200
                /\ users' = [users EXCEPT ![uid].last_login = now]
                /\ resp'.access.user_id = uid /\ resp'.refresh.user_id = uid
                /\ {resp'.access, resp'.refresh} \subseteq issued'
           /\ ~LoginAllowed(uid, pw_ok) =>
                /\ resp'.status \in {400, 401}
                /\ resp'.access = NoToken /\ resp'.refresh = NoToken
                /\ issued' = issued
                /\ users' = users]_vars

\* A login with the right password was refused for a user who had logged in
\* before and was deactivated since; last_login still shows the earlier login.
C15_Witness ==
    /\ resp.op = "login" /\ resp.status = 401
    /\ \E uid \in UserIds :
         /\ users[uid].exists /\ ~users[uid].is_active
         /\ users[uid].last_login # NoLogin
         /\ users[uid].last_login < resp.at

\* C18: at every time reached, verify_token on an issued token under its own
\* kind fails with ExpiredSignatureError when now >= exp and succeeds when
\* now <= exp - 1.
C18_ExpiryBoundary ==
    \A tok \in issued :
       LET v == verify_token(tok, tok.token_type, now) IN
       /\ now >= tok.exp =>
            /\ ~v.ok
            /\ v.err = "ExpiredSignatureError"
            /\ v.err # verify_token(Forged(tok), tok.token_type, now).err
       /\ now <= tok.exp - 1 =>
            /\ v.ok
            /\ v.payload.user_id = tok.user_id

\* The clock stands exactly at the exp of an issued refresh token whose user
\* is active, and the refresh call was refused.
C18_Witness ==
    /\ resp.op = "refresh" /\ resp.status = 401
    /\ \E tok \in issued :
         /\ tok.token_type = "refresh" /\ tok.exp = now
         /\ Active(tok.user_id)
    /\ \E tok \in issued : tok.exp - 1 >= now

(***************************************************************************)
(* Claims about the department hierarchy                                   *)
(***************************************************************************)
RowsOf(c, id) == {r \in DOMAIN c : r[2] = id}

\* The rows create and update are meant to give `id` under parent `parent_id`.
RowsUnder(c, id, parent_id) ==
    {ClosureRow(r[1], id, r[3] + 1) : r \in RowsOf(c, parent_id)}
        \cup {ClosureRow(id, id, 0)}

\* C5: once update_dept has moved C from parent P to parent Q, the closure
\* rows whose descendant is C are the self row and one row (A, C, level+1)
\* per row (A, Q, level), each exactly once.
C5_MoveRebuildsUnderNewParent ==
    LET c == dept_res.id
        pOld == dept_res.old_parent
        q == IF HasDept(dept, c) THEN dept[c].parent_id ELSE 0 IN
    ( /\ dept_res.op = "update" /\ dept_res.outcome = "ok"
      /\ pOld \in DeptIds(dept) \ {c}
      /\ q \in DeptIds(dept) \ {c, pOld}
      /\ dept[q].parent_id # c )
    => /\ RowsOf(closure, c) = RowsUnder(closure, c, q)
       /\ \A r \in RowsOf(closure, c) : closure[r] = 1

RECURSIVE KthAncestor(_, _, _)
KthAncestor(d, id, k) ==
    IF k = 0 THEN id
    ELSE IF ~HasDept(d, id) THEN 0
    ELSE KthAncestor(d, d[id].parent_id, k - 1)

ExpectedClosure(d) ==
    {ClosureRow(id, id, 0) : id \in DeptIds(d)}
        \cup {ClosureRow(KthAncestor(d, id, k), id, k) :
                <<id, k>> \in {x \in DeptIds(d) \X (1..Len(d)) :
                                 HasDept(d, KthAncestor(d, x[1], x[2]))}}

\* C6: the closure table holds, each exactly once, the self row of every Dept
\* row and the row (a, d, k) of every k-th ancestor a of d along parent_id,
\* and nothing else.
C6_ClosureMatchesParentLinks ==
    /\ DOMAIN closure = ExpectedClosure(dept)
    /\ \A r \in DOMAIN closure : closure[r] = 1

\* C7: create_dept under a parent that does not exist answers NotFound and
\* inserts nothing; otherwise it appends the Dept row and adds, once each,
\* the parent's closure rows one level up and the self row, leaving every
\* other closure row as it was.
C7_CreateInsertsAncestorRows ==
    [][\A p \in ParentArgs :
         create_dept(p, "none") =>
           IF p # 0 /\ p \notin DeptIds(dept)
           THEN /\ dept_res'.outcome = "NotFound"
                /\ dept' = dept /\ closure' = closure
           ELSE LET new == Len(dept) + 1 IN
                /\ dept_res'.outcome = "ok"
                /\ dept' = Append(dept, DeptRow(p, FALSE))
                /\ DOMAIN closure' = DOMAIN closure \cup RowsUnder(closure, new, p)
                /\ \A r \in DOMAIN closure : closure'[r] = closure[r]
                /\ \A r \in RowsOf(closure, p) :
                     closure'[ClosureRow(r[1], new, r[3] + 1)] = closure[r]
                /\ closure'[ClosureRow(new, new, 0)] = 1
                /\ (p = 0 => RowsOf(closure', new) = {ClosureRow(new, new, 0)})]_vars

\* A department was created under a parent that itself has a parent.
C7_Witness ==
    /\ dept_res.op = "create" /\ dept_res.outcome = "ok"
    /\ dept[dept_res.id].parent_id # 0
    /\ \E a \in DeptIds(dept) : ClosureRow(a, dept_res.id, 2) \in DOMAIN closure

\* C8: a department call that does not complete leaves Dept and DeptClosure
\* exactly as they were before the call.
C8_FailedCallChangesNothing ==
    [][dept_res'.outcome # "ok" => (dept' = dept /\ closure' = closure)]_vars

\* update_dept failed at the closure insert, after its two deletes, on a
\* department whose closure rows are all still there.
C8_Witness ==
    /\ dept_res.op = "update" /\ dept_res.fail = "bulk_create"
    /\ Len(dept) = MaxFailDept
    /\ \A id \in DeptIds(dept) : ClosureRow(id, id, 0) \in DOMAIN closure
    /\ \E id \in DeptIds(dept) : dept[id].parent_id # 0

(***************************************************************************)
(* Claims about permission matching                                        *)
(***************************************************************************)
\* The segments of a path: the runs of characters between the slashes.
RECURSIVE SplitPath(_, _)
SplitPath(str, cur) ==
    IF str = <<>> THEN <<cur>>
    ELSE IF Head(str) = "/" THEN <<cur>> \o SplitPath(Tail(str), <<>>)
    ELSE SplitPath(Tail(str), Append(cur, Head(str)))

IsPlaceholder(seg) == Len(seg) >= 3 /\ seg[1] = "{" /\ seg[Len(seg)] = "}"

\* The pattern covers the whole path: as many segments, a placeholder against
\* any non-empty segment, every other segment against itself.
PatternCovers(pattern, path) ==
    LET ps == SplitPath(pattern, <<>>)
        qs == SplitPath(path, <<>>) IN
    /\ Len(ps) = Len(qs)
    /\ \A i \in 1..Len(ps) :
         IF IsPlaceholder(ps[i]) THEN qs[i] # <<>> ELSE qs[i] = ps[i]

\* C4: for a non-superuser with a role, the check grants exactly when some
\* granted Api row has the request's method and a pattern covering the whole
\* request path; otherwise it answers 403 naming the method and the path.
C4_GrantIffPatternCovers ==
    (perm_res.status # 0 /\ ~perm_in.is_superuser /\ perm_in.roles # <<>>) =>
      LET granted == \E i \in DOMAIN perm_in.roles : \E api \in perm_in.roles[i] :
                        /\ api.method = perm_res.method
                        /\ PatternCovers(api.path, perm_res.path) IN
      /\ (perm_res.status = 200) <=> granted
      /\ ~granted => /\ perm_res.status = 403
                     /\ perm_res.detail = "Permission denied"

\* The Api rows of all roles of the user of the check under way.
GrantsOf(user) == UNION {user.roles[i] : i \in DOMAIN user.roles}

\* C11: a superuser is granted every (method, path), whatever roles and grants
\* exist, also with no role at all.
C11_SuperuserAlwaysGranted ==
    (perm_res.status # 0 /\ perm_in.is_superuser)
        => /\ perm_res.status = 200
           /\ perm_res.method \in Methods
           /\ perm_res.path \in RequestPaths

C11_Witness ==
    /\ perm_in.is_superuser
    /\ perm_in.roles = <<>>
    /\ perm_res.status = 200

\* C12: a non-superuser with no role is denied every (method, path) with 403
\* "The user is not bound to a role"; a user who has roles but no matching
\* grant is denied with a different detail.
C12_NoRoleDenied ==
    (perm_res.status # 0 /\ ~perm_in.is_superuser)
        => /\ perm_in.roles = <<>>
               => /\ perm_res.status = 403
                  /\ perm_res.detail = "The user is not bound to a role"
           /\ (perm_in.roles # <<>> /\ perm_res.status = 403)
               => perm_res.detail # "The user is not bound to a role"

C12_Witness ==
    /\ ~perm_in.is_superuser
    /\ perm_in.roles = <<>>
    /\ perm_res.status = 403
    /\ perm_res.detail = "The user is not bound to a role"

HasPlaceholder(pattern) == \E i \in DOMAIN pattern : pattern[i] = "{"

\* C13: when no granted pattern holds a placeholder, a request is granted only
\* if its path is character for character one of the patterns granted for its
\* method.
C13_LiteralPatternExact ==
    (/\ perm_res.status = 200
     /\ ~perm_in.is_superuser
     /\ \A api \in GrantsOf(perm_in) : ~HasPlaceholder(api.path))
        => \E api \in GrantsOf(perm_in) :
              /\ api.method = perm_res.method
              /\ api.path = perm_res.path

(***************************************************************************)
(* Claims about delete_dept and get_dept_tree                              *)
(***************************************************************************)
\* C16: delete_dept(d) sets is_deleted on d's Dept row and keeps the row,
\* deletes exactly the closure rows whose descendant is d, and leaves every
\* other closure row (those with d as ancestor of another department
\* included) and every other Dept row as they were.
C16_DeleteFrame ==
    [][\A id \in DeptArgs :
         (delete_dept(id, "none") /\ HasDept(dept, id)) =>
           /\ Len(dept') = Len(dept)
           /\ dept'[id] = [dept[id] EXCEPT !.is_deleted = TRUE]
           /\ \A j \in DeptIds(dept) \ {id} : dept'[j] = dept[j]
           /\ DOMAIN closure' = {r \in DOMAIN closure : r[2] # id}
           /\ \A r \in DOMAIN closure' : closure'[r] = closure[r]]_vars

\* A department was deleted while it still is the ancestor of another one:
\* its own rows are gone, the row naming it as ancestor is still there.
C16_Witness ==
    /\ dept_res.op = "delete" /\ dept_res.outcome = "ok"
    /\ dept[dept_res.id].is_deleted
    /\ \A r \in DOMAIN closure : r[2] # dept_res.id
    /\ \E r \in DOMAIN closure : r[1] = dept_res.id /\ r[2] # dept_res.id

\* Every node of a forest, at any depth.
RECURSIVE NodesOf(_)
NodesOf(forest) ==
    UNION {{forest[i]} \cup NodesOf(forest[i].children) : i \in DOMAIN forest}

\* The departments a call with this name filter is to show.
Shown(name) ==
    {id \in DOMAIN tree_depts :
        /\ ~tree_depts[id].is_deleted
        /\ name = <<>> \/ Contains(tree_depts[id].name, name)}

\* One level of the result: exactly the shown departments under parent_id,
\* each once, in ascending order.
LevelOK(level, name, parent_id) ==
    /\ {level[i].id : i \in DOMAIN level}
          = {id \in Shown(name) : tree_depts[id].parent_id = parent_id}
    /\ \A i, j \in DOMAIN level : i # j => level[i].id # level[j].id
    /\ \A i, j \in DOMAIN level : i < j => level[i].order <= level[j].order
    /\ \A i \in DOMAIN level :
          /\ level[i].name = tree_depts[level[i].id].name
          /\ level[i].order = tree_depts[level[i].id].order
          /\ level[i].parent_id = parent_id

\* C17: the result of get_dept_tree(name) lists at the top the shown
\* departments with parent_id 0, under every node exactly the shown
\* departments whose parent_id is the node's id, every level in ascending
\* order of the order field, and holds no soft-deleted department.
C17_TreeOfShownDepts ==
    tree_res.called =>
       /\ LevelOK(tree_res.tree, tree_res.name, 0)
       /\ \A node \in NodesOf(tree_res.tree) :
             /\ LevelOK(node.children, tree_res.name, node.id)
             /\ node.id \in Shown(tree_res.name)
             /\ ~tree_depts[node.id].is_deleted

\* A node has two children that come in order of their order field, against
\* the order of their ids.
C17_Witness ==
    /\ tree_res.called
    /\ \E node \in NodesOf(tree_res.tree) :
          /\ Len(node.children) = 2
          /\ node.children[1].id > node.children[2].id
          /\ node.children[1].order < node.children[2].order

(***************************************************************************)
(* Claims about the sensitive word filter (checked under FilterSpec)       *)
(***************************************************************************)
\* The text a chunk carries after the "data:" prefix.
CarriedText(chunk) == chunk.answer \o chunk.text \o chunk.content \o chunk.raw

\* C19: filter_streaming_chunk returns the chunk it was given or None; None
\* only when the filter is enabled, its automaton is built and the text of
\* this chunk contains one of its terms; a disabled filter or one whose
\* automaton did not build returns every chunk.  The call changes neither the
\* filter nor its settings, and a blocked chunk leaves the chunk let through
\* before it as it was.
C19_ChunkPassedOrBlocked ==
    [][\A chunk \in Chunks :
         FilterStreamingChunk(chunk) =>
           /\ filter_res'.out \in {chunk, NoneChunk}
           /\ filter_res'.out = NoneChunk =>
                /\ sensitive_word_filter.enabled
                /\ sensitive_word_filter.automaton.kind = "ahocorasick"
                /\ \E w \in sensitive_word_filter.automaton.words :
                      Contains(lower(CarriedText(chunk)), w.key)
           /\ ( \/ ~sensitive_word_filter.enabled
                \/ sensitive_word_filter.automaton.kind # "ahocorasick" )
                => filter_res'.out = chunk
           /\ sensitive_word_filter' = sensitive_word_filter
           /\ settings' = settings
           /\ flushed' = IF filter_res'.out = NoneChunk THEN flushed ELSE chunk]_vars

\* A chunk was blocked after another one had been let through, and that
\* earlier chunk still stands.
C19_Witness ==
    /\ filter_res.op = "chunk" /\ filter_res.out = NoneChunk
    /\ flushed \in Chunks
    /\ sensitive_word_filter.enabled

\* The terms of the word list configured now.
CurrentTerms ==
    {lower(strip(settings.SENSITIVE_WORDS[i].s)) :
        i \in {j \in DOMAIN settings.SENSITIVE_WORDS :
                  strip(settings.SENSITIVE_WORDS[j].s) # <<>>}}

Buildable(ws) == \A i \in DOMAIN ws : ws[i].is_str

\* C20: after reload_sensitive_words with filtering switched on in the
\* settings and a word list that builds, contains_sensitive_word finds
\* exactly the texts holding a term of the current list, also when an
\* earlier build had failed.
C20_ReloadTakesCurrentList ==
    [][( /\ reload_sensitive_words
         /\ settings.ENABLE_SENSITIVE_WORD_FILTER
         /\ Buildable(settings.SENSITIVE_WORDS) )
       => \A text \in ScanTexts :
             contains_sensitive_word(sensitive_word_filter', text).found
                <=> \E term \in CurrentTerms : Contains(lower(text), term)]_vars

\* The non-blank items of a word list, stripped, in their own casing.
ConfiguredTerms(ws) ==
    {strip(ws[i].s) : i \in {j \in DOMAIN ws : ws[j].is_str /\ strip(ws[j].s) # <<>>}}

\* C21: with the filter enabled and its automaton built from a word list,
\* contains_sensitive_word(text) finds a term exactly when the text in lower
\* case holds the lower-case form of a non-blank term of that list; the term
\* returned is one of that list in its own casing and occurs in the text up
\* to case; otherwise the result is (False, None), for the empty text too.
C21_ContainsIffLowercaseSubstring ==
    [][/\ (/\ reload_sensitive_words
           /\ sensitive_word_filter'.enabled
           /\ Buildable(settings.SENSITIVE_WORDS))
          => /\ {w.key : w \in sensitive_word_filter'.automaton.words}
                   = {lower(t) : t \in ConfiguredTerms(settings.SENSITIVE_WORDS)}
             /\ {w.word : w \in sensitive_word_filter'.automaton.words}
                   \subseteq ConfiguredTerms(settings.SENSITIVE_WORDS)
       /\ \A text \in ScanTexts :
            (/\ ContainsSensitiveWord(text)
             /\ sensitive_word_filter.enabled
             /\ sensitive_word_filter.automaton.kind \in {"ahocorasick", "empty"})
            => LET terms == {w.word : w \in sensitive_word_filter.automaton.words} IN
               /\ filter_res'.found
                     <=> \E t \in terms : Contains(lower(text), lower(t))
               /\ filter_res'.found
                     => /\ filter_res'.matched \in terms
                        /\ Contains(lower(text), lower(filter_res'.matched))
               /\ ~filter_res'.found => filter_res'.matched = <<>>
               /\ text = <<>> => ~filter_res'.found]_vars

\* A text was found to hold a term that is configured in another casing than
\* it has in the text.
C21_Witness ==
    /\ filter_res.op = "contains" /\ filter_res.found
    /\ filter_res.matched # lower(filter_res.matched)
    /\ sensitive_word_filter.enabled

\* C29: reload_sensitive_words returns True exactly when the filter is
\* enabled afterwards with an automaton built from the current word list, and
\* False when the rebuild failed.
C29_ReloadResultTellsSuccess ==
    [][reload_sensitive_words =>
         (filter_res'.found
            <=> /\ sensitive_word_filter'.enabled
                /\ Buildable(settings.SENSITIVE_WORDS)
                /\ {w.key : w \in sensitive_word_filter'.automaton.words}
                      = {lower(t) : t \in ConfiguredTerms(settings.SENSITIVE_WORDS)})]_vars

(***************************************************************************)
(* Claims about the tree over tables the department calls can produce      *)
(***************************************************************************)
\* The number of nodes of a forest, and its depth.
RECURSIVE SizeOf(_)
SizeOf(forest) ==
    IF forest = <<>> THEN 0
    ELSE 1 + SizeOf(Head(forest).children) + SizeOf(Tail(forest))

RECURSIVE DepthOf(_)
DepthOf(forest) ==
    IF forest = <<>> THEN 0
    ELSE LET d1 == 1 + DepthOf(Head(forest).children)
             d2 == DepthOf(Tail(forest))
         IN  IF d1 >= d2 THEN d1 ELSE d2

\* The Dept table of the department calls as get_dept_tree reads it (name and
\* order play no part in an unfiltered call).
DeptAsTreeRows(d) ==
    [id \in DOMAIN d |->
        [name |-> <<>>, order |-> 0,
         parent_id |-> d[id].parent_id, is_deleted |-> d[id].is_deleted]]

\* C26: after any sequence of create_dept, update_dept and delete_dept the
\* unfiltered tree holds every department with is_deleted = False exactly
\* once.
C26_TreeHoldsEveryLiveDept ==
    LET rows == DeptAsTreeRows(dept)
        live == {id \in DOMAIN dept : ~dept[id].is_deleted}
    IN  \A all_depts \in OrderBy(rows, SelectedDepts(rows, <<>>)) :
           LET tree == build_tree(rows, all_depts, 0) IN
           /\ {node.id : node \in NodesOf(tree)} = live
           /\ SizeOf(tree) = Cardinality(live)

\* A parent_id link chain that comes back to where it started.
RECURSIVE ReachesBack(_, _, _, _)
ReachesBack(rows, start, cur, fuel) ==
    /\ fuel > 0
    /\ cur \in DOMAIN rows
    /\ \/ rows[cur].parent_id = start
       \/ ReachesBack(rows, start, rows[cur].parent_id, fuel - 1)

OnCycle(rows, id) == ReachesBack(rows, id, id, Len(rows))

\* C30: for every table, those with parent_id cycles and self-parents
\* included, get_dept_tree returns, and its recursion from root 0 has visited
\* each department at most once: no id occurs twice in the result, and the
\* result is no deeper than the table is long.
C30_TreeVisitsEachDeptOnce ==
    tree_res.called =>
       /\ SizeOf(tree_res.tree) = Cardinality({node.id : node \in NodesOf(tree_res.tree)})
       /\ SizeOf(tree_res.tree) <= Len(tree_depts)
       /\ DepthOf(tree_res.tree) <= Len(tree_depts)
       /\ \A node \in NodesOf(tree_res.tree) : ~OnCycle(tree_depts, node.id)

\* An unfiltered call returned a non-empty tree for a table in which a live
\* department lies on a parent_id cycle through another department.
C30_Witness ==
    /\ tree_res.called
    /\ tree_res.tree # <<>>
    /\ \E id \in DOMAIN tree_depts :
          /\ ~tree_depts[id].is_deleted
          /\ OnCycle(tree_depts, id)
          /\ tree_depts[id].parent_id # id
    /\ tree_res.name = <<>>

\* C22: cache unavailability never surfaces to callers. When Redis is not
\* connected, or the Redis operation of the call raises, get returns None,
\* set, delete and exists return False, clear_pattern returns 0, none of
\* them raises, and a call of a function wrapped by @cached invokes the
\* function and returns the function's own result.
C22_CacheFailureNeverSurfaces ==
    [][\A raises \in BOOLEAN :
         LET down == cache_redis = "None" \/ raises IN
         /\ \A key \in DirectKeys :
              /\ (CacheGet(key, raises) /\ down) =>
                    (cache_res'.value = PyNone /\ ~cache_res'.raised)
              /\ (CacheExists(key, raises) /\ down) =>
                    (~cache_res'.ok /\ ~cache_res'.raised)
              /\ \A value \in DirectValues, ttl \in {0, 60} :
                    (CacheSet(key, value, ttl, raises) /\ down) =>
                       (~cache_res'.ok /\ ~cache_res'.raised /\ redis_db' = redis_db)
         /\ \A key \in CacheKeys :
              (CacheDelete(key, raises) /\ down) =>
                 (~cache_res'.ok /\ ~cache_res'.raised)
         /\ \A pattern \in ClearPatterns :
              (ClearPattern(pattern, raises) /\ down) =>
                 (cache_res'.n = 0 /\ ~cache_res'.raised)
         /\ \A kind \in FuncKinds, param \in FuncParams, sr \in BOOLEAN :
              (CallCached(kind, param, raises, sr) /\ (cache_redis = "None" \/ (raises /\ sr))) =>
                 /\ cache_res'.called
                 /\ call_count' = call_count + 1
                 /\ cache_res'.value = test_function(kind, param)
                 /\ ~cache_res'.raised
         /\ \A u \in UserIds, sr \in BOOLEAN :
              (GetUserDetail(u, raises, sr) /\ (cache_redis = "None" \/ (raises /\ sr))) =>
                 /\ cache_res'.called
                 /\ call_count' = call_count + 1
                 /\ cache_res'.value = get_user_detail_body(users, u)
                 /\ ~cache_res'.raised
      ]_vars

\* The wrapped function has been invoked by every one of MaxCalls calls
\* while Redis is connected and holds nothing: its operations raised.
C22_Witness ==
    /\ cache_res.op = "cached"
    /\ cache_res.called
    /\ cache_res.value # PyNone
    /\ call_count = MaxCalls
    /\ cache_redis = "connected"
    /\ redis_db = {}

\* C23: with Redis available, while the key written by a first call that
\* returned a non-None result is still held, a later call with the same
\* arguments does not invoke the function and returns a result equal to the
\* function's; once the key is gone the call invokes the function again.
C23_HitEqualsFirstResult ==
    [][\A kind \in FuncKinds, param \in FuncParams :
         (CallCached(kind, param, FALSE, FALSE) /\ cache_redis = "connected") =>
            LET key == CacheManager_cache_key(FuncPrefix(kind), <<param>>)
                held == redis_get(redis_db, key, now) # NoData
            IN  /\ held => /\ ~cache_res'.called
                           /\ call_count' = call_count
                           /\ cache_res'.value = test_function(kind, param)
                /\ ~held => (cache_res'.called /\ call_count' = call_count + 1)
      ]_vars

\* C25: after update_user(u) or delete_user(u) returned success with Redis
\* working, Redis no longer holds the entry get_user_detail wrote for u.
C25_ChangeDropsCachedDetail ==
    [][\A u \in UserIds :
         (/\ \/ \E b \in BOOLEAN : UpdateUser(u, b, FALSE)
             \/ RemoveUser(u, FALSE)
          /\ cache_redis = "connected"
          /\ cache_res'.ok) =>
            redis_get(redis_db', UserDetailKey(u), now') = NoData
      ]_vars

\* Some excluded pattern is found in the path.
Excluded(path) == \E i \in DOMAIN exclude_paths : re_search(exclude_paths[i], path)

\* C24: the audit log only grows. A request whose method is GET, POST, PUT
\* or DELETE and whose path matches no excluded pattern appends exactly one
\* AuditLog row, for that request; a request on an excluded path appends
\* none; the rows already written stay as they are.
C24_EveryRequestAudited ==
    [][\A request \in Requests :
         HttpRequest(request) =>
            /\ Len(audit_log') >= Len(audit_log)
            /\ SubSeq(audit_log', 1, Len(audit_log)) = audit_log
            /\ (request.method \in AuditMethods /\ ~Excluded(request.path)) =>
                  /\ Len(audit_log') = Len(audit_log) + 1
                  /\ audit_log'[Len(audit_log')].method = request.method
                  /\ audit_log'[Len(audit_log')].path = request.path
            /\ Excluded(request.path) => audit_log' = audit_log
      ]_vars

\* C27: the row written for a request that carries a valid bearer access
\* token records the id and the username of the token's user; user_id 0
\* with an empty username is written only for a request without one.
C27_AuditRowNamesUser ==
    [][\A request \in Requests :
         (HttpRequest(request) /\ Len(audit_log') > Len(audit_log)) =>
            LET row == audit_log'[Len(audit_log')]
                authed == is_authed(users, request.authorization, now)
            IN  /\ authed.status = 200 =>
                      (row.user_id = authed.user_id /\ row.username = UsernameOf(authed.user_id))
                /\ (row.user_id = 0 /\ row.username = "") => authed.status # 200
      ]_vars

\* The tables after the two calls ran one after the other, in either order.
SerialOutcome(first, second) ==
    LET r1 == update_dept_body(RaceTables.dept, RaceTables.closure, RaceDept, first, "none")
    IN  update_dept_body(r1.dept, r1.closure, RaceDept, second, "none")

SerialOutcomes ==
    {SerialOutcome(calls[1].parent_id, calls[2].parent_id),
     SerialOutcome(calls[2].parent_id, calls[1].parent_id)}

BothDone == calls # NoCalls /\ \A p \in Procs : calls[p].pc = "done"

====
